---- MODULE Spec2Model ----
(***************************************************************************)
(* Giro lifecycle of az.giro.input (models/az_giro_input.py) over the      *)
(* account.move ledger it posts to.                                        *)
(*                                                                         *)
(* One instrument (`record`) and the ledger entries (`moves`) created for  *)
(* it.  Spec runs every handler as one request; SpecSteps and SpecConc run *)
(* the posting handlers statement by statement.                            *)
(***************************************************************************)
EXTENDS Integers, Sequences, FiniteSets, TLC

(* ---------------------------------------------------------------------- *)
(* Bounds                                                                  *)
(* ---------------------------------------------------------------------- *)
MaxMoves == 4
MaxAmount == 1
MaxWipMoves == 2
MaxDate == 1
MaxLines == 4
MaxLedgerAmount == 3

(* ---------------------------------------------------------------------- *)
(* Master data the instrument refers to                                    *)
(* ---------------------------------------------------------------------- *)
NoMove == 0
NoAccount == "no_account"
NoJournal == "no_journal"

Amounts == -1 .. MaxAmount
PartnerTypes == {"customer", "vendor"}
\* partner "p_full" has both control accounts, "p_bare" has neither
Partners == {"p_full", "p_bare"}
\* company "c_gen" owns a general journal, "c_nogen" owns none
Companies == {"c_gen", "c_nogen"}
\* bank journal "j_bank" has a default account, "j_bank_noacc" has none
BankJournals == {NoJournal, "j_bank", "j_bank_noacc"}
States == {"draft", "confirmed", "cleared", "clearing_reversed", "reversed", "cancelled"}
Procs == {1, 2}

property_account_payable_id(p) == IF p = "p_full" THEN "acc_payable" ELSE NoAccount
property_account_receivable_id(p) == IF p = "p_full" THEN "acc_receivable" ELSE NoAccount
default_account_id(j) == IF j = "j_bank" THEN "acc_bank" ELSE NoAccount
\* env['account.journal'].search([type = general, company_id = c], limit=1)
search_general_journal(c) == IF c = "c_gen" THEN "j_general" ELSE NoJournal

VARIABLES
  record,   \* the az.giro.input record: its stored fields
  moves,    \* account.move records, indexed by id
  last,     \* the last request: handler and how it returned
  proc,     \* per request in flight: position in the handler and its locals
  wizard,   \* the mrp.account.wip.accounting wizard record and its lines
  production, \* the mrp.production being marked done
  report    \* the trial balance: ledger lines, wizards and their result lines

vars == <<record, moves, last, proc, wizard, production, report>>

(* ---------------------------------------------------------------------- *)
(* Stored computed fields                                                  *)
(* ---------------------------------------------------------------------- *)
\* variant: the flag follows the state instead of the link
compute_is_cleared_by_state(r) == r.state = "cleared"

compute_is_cleared(r) == r.clearing_move_id # NoMove
compute_is_reversed(r) == r.reverse_move_id # NoMove
compute_is_clearing_reversed(r) == r.reverse_clearing_move_id # NoMove

recompute(r) ==
  [r EXCEPT !.is_cleared = compute_is_cleared(r),
            !.is_reversed = compute_is_reversed(r),
            !.is_clearing_reversed = compute_is_clearing_reversed(r)]

\* related field bank_account_id = journal_bank_id.default_account_id
bank_account_id(r) == default_account_id(r.journal_bank_id)

\* record.write(vals): the fields of vals replace the record's, the stored
\* computed fields that depend on them are recomputed
written(r, vals) ==
  recompute([f \in DOMAIN r |-> IF f \in DOMAIN vals THEN vals[f] ELSE r[f]])

(* ---------------------------------------------------------------------- *)
(* Ledger: account.move                                                    *)
(* ---------------------------------------------------------------------- *)
Line(account, partner, debit, credit) ==
  [account_id |-> account, partner_id |-> partner, debit |-> debit, credit |-> credit]

\* env['account.move'].create(move_vals): a draft entry
Move(journal, ref, lines, partner) ==
  [exists |-> TRUE, state |-> "draft", journal_id |-> journal, ref |-> ref,
   line_ids |-> lines, partner_id |-> partner]

is_posted(ms, id) == id # NoMove /\ ms[id].exists /\ ms[id].state = "posted"

\* AccountMove.action_post: the entry's partner follows its first line's, then
\* the ledger posts it
action_post(m) ==
  [m EXCEPT !.partner_id = IF Len(m.line_ids) > 0 /\ m.line_ids[1].partner_id # m.partner_id
                           THEN m.line_ids[1].partner_id ELSE m.partner_id,
            !.state = "posted"]

\* move.unlink(): the entry and its lines are gone
unlink_move(ms, id) ==
  [ms EXCEPT ![id] = [exists |-> FALSE, state |-> "draft", journal_id |-> NoJournal,
                      ref |-> "", line_ids |-> <<>>, partner_id |-> ""]]

(* ---------------------------------------------------------------------- *)
(* Entry builders                                                          *)
(* ---------------------------------------------------------------------- *)
\* variant: the control account of the other partner type
partner_account_other_type(r) ==
  IF r.partner_type = "vendor" THEN property_account_receivable_id(r.partner_id)
  ELSE property_account_payable_id(r.partner_id)

partner_account(r) ==
  IF r.partner_type = "vendor" THEN property_account_payable_id(r.partner_id)
  ELSE property_account_receivable_id(r.partner_id)

\* variant: the general journal is not tested
create_account_move_check_partner_only(r) ==
  IF partner_account(r) = NoAccount THEN "ValidationError" ELSE "ok"

\* the error _create_account_move raises before it creates anything, or "ok"
create_account_move_check(r) ==
  IF partner_account(r) = NoAccount THEN "ValidationError"
  ELSE IF search_general_journal(r.company_id) = NoJournal THEN "ValidationError"
  ELSE "ok"

create_account_move(r) ==
  Move(search_general_journal(r.company_id), "name",
       << Line(r.giro_account_id, r.partner_id, r.amount, 0),
          Line(partner_account(r), r.partner_id, 0, r.amount) >>,
       r.partner_id)

create_clearing_move_check(r) ==
  IF r.journal_bank_id = NoJournal THEN "ValidationError" ELSE "ok"

\* variant: the clearing entry debits the giro account and credits the bank
create_clearing_move_inverted(r) ==
  Move(r.journal_bank_id, "Clearing",
       << Line(r.giro_account_id, r.partner_id, r.amount, 0),
          Line(bank_account_id(r), r.partner_id, 0, r.amount) >>,
       r.partner_id)

\* variant: the clearing entry credits the partner's account
create_clearing_move_crediting_partner(r) ==
  Move(r.journal_bank_id, "Clearing",
       << Line(bank_account_id(r), r.partner_id, r.amount, 0),
          Line(partner_account(r), r.partner_id, 0, r.amount) >>,
       r.partner_id)

create_clearing_move(r) ==
  Move(r.journal_bank_id, "Clearing",
       << Line(bank_account_id(r), r.partner_id, r.amount, 0),
          Line(r.giro_account_id, r.partner_id, 0, r.amount) >>,
       r.partner_id)

\* variant: the line is copied, debit and credit are not swapped
reversed_line_copied(line) ==
  Line(line.account_id, line.partner_id, line.debit, line.credit)

\* variant: the reversed line loses the partner
reversed_line_no_partner(line) ==
  Line(line.account_id, "no_partner", line.credit, line.debit)

reversed_line(line) ==
  Line(line.account_id, line.partner_id, line.credit, line.debit)

create_reverse_move(r, original_move, reverse_ref) ==
  Move(original_move.journal_id, reverse_ref,
       [i \in 1 .. Len(original_move.line_ids) |-> reversed_line(original_move.line_ids[i])],
       r.partner_id)

(* ---------------------------------------------------------------------- *)
(* Preconditions of the handlers, in the order the code tests them         *)
(* ---------------------------------------------------------------------- *)
Ok == [res |-> "ok", msg |-> ""]
Err(kind, msg) == [res |-> kind, msg |-> msg]

\* variant: the state is not tested
action_confirm_check_any_state(r) ==
  IF r.giro_account_id = NoAccount
  THEN Err("ValidationError", "Giro Account is required before confirmation.")
  ELSE IF create_account_move_check(r) # "ok"
       THEN Err(create_account_move_check(r), "partner account or general journal missing")
  ELSE Ok

action_confirm_check(r) ==
  IF r.state # "draft" THEN Err("UserError", "Only draft giro can be confirmed.")
  ELSE IF r.giro_account_id = NoAccount
       THEN Err("ValidationError", "Giro Account is required before confirmation.")
  ELSE IF create_account_move_check(r) # "ok"
       THEN Err(create_account_move_check(r), "partner account or general journal missing")
  ELSE Ok

\* variant: the state is not tested
action_clearing_check_any_state(r) ==
  IF r.is_cleared THEN Err("UserError", "This giro has already been cleared.")
  ELSE IF r.journal_bank_id = NoJournal
       THEN Err("ValidationError", "Bank Journal is required for clearing.")
  ELSE IF bank_account_id(r) = NoAccount
       THEN Err("ValidationError", "Bank Account is not configured in the selected Bank Journal.")
  ELSE Ok

action_clearing_check(r) ==
  IF r.state # "confirmed" THEN Err("UserError", "Only confirmed giro can be cleared.")
  ELSE IF r.is_cleared THEN Err("UserError", "This giro has already been cleared.")
  ELSE IF r.journal_bank_id = NoJournal
       THEN Err("ValidationError", "Bank Journal is required for clearing.")
  ELSE IF bank_account_id(r) = NoAccount
       THEN Err("ValidationError", "Bank Account is not configured in the selected Bank Journal.")
  ELSE IF create_clearing_move_check(r) # "ok"
       THEN Err(create_clearing_move_check(r), "Bank Journal is required for clearing.")
  ELSE Ok

\* variant: an instrument whose clearing is reversed cannot be reversed
action_reverse_giro_check_not_clearing_reversed(r, ms) ==
  IF r.state \notin {"confirmed", "cleared"}
  THEN Err("UserError", "Only confirmed, cleared, or clearing reversed giro can be reversed.")
  ELSE IF r.account_move_id = NoMove THEN Err("UserError", "No journal entry found to reverse.")
  ELSE IF ~is_posted(ms, r.account_move_id)
       THEN Err("UserError", "Only posted journal entries can be reversed.")
  ELSE IF r.is_reversed THEN Err("UserError", "This giro has already been reversed.")
  ELSE Ok

\* variant: is_reversed is not tested
action_reverse_giro_check_reversed_untested(r, ms) ==
  IF r.state \notin {"confirmed", "cleared", "clearing_reversed"}
  THEN Err("UserError", "Only confirmed, cleared, or clearing reversed giro can be reversed.")
  ELSE IF r.account_move_id = NoMove THEN Err("UserError", "No journal entry found to reverse.")
  ELSE IF ~is_posted(ms, r.account_move_id)
       THEN Err("UserError", "Only posted journal entries can be reversed.")
  ELSE Ok

action_reverse_giro_check(r, ms) ==
  IF r.state \notin {"confirmed", "cleared", "clearing_reversed"}
  THEN Err("UserError", "Only confirmed, cleared, or clearing reversed giro can be reversed.")
  ELSE IF r.account_move_id = NoMove THEN Err("UserError", "No journal entry found to reverse.")
  ELSE IF ~is_posted(ms, r.account_move_id)
       THEN Err("UserError", "Only posted journal entries can be reversed.")
  ELSE IF r.is_reversed THEN Err("UserError", "This giro has already been reversed.")
  ELSE Ok

\* variant: the state is not tested
action_reverse_clearing_check_any_state(r, ms) ==
  IF r.clearing_move_id = NoMove THEN Err("UserError", "No clearing entry found to reverse.")
  ELSE IF ~is_posted(ms, r.clearing_move_id)
       THEN Err("UserError", "Only posted clearing entries can be reversed.")
  ELSE IF r.is_clearing_reversed THEN Err("UserError", "This clearing has already been reversed.")
  ELSE Ok

action_reverse_clearing_check(r, ms) ==
  IF r.state \notin {"cleared", "reversed"}
  THEN Err("UserError", "Only cleared or reversed giro can have clearing reversed.")
  ELSE IF r.clearing_move_id = NoMove THEN Err("UserError", "No clearing entry found to reverse.")
  ELSE IF ~is_posted(ms, r.clearing_move_id)
       THEN Err("UserError", "Only posted clearing entries can be reversed.")
  ELSE IF r.is_clearing_reversed THEN Err("UserError", "This clearing has already been reversed.")
  ELSE Ok

action_draft_check(r, ms) ==
  IF r.clearing_move_id # NoMove /\ is_posted(ms, r.clearing_move_id)
  THEN Err("UserError", "Cannot reset to draft. The clearing journal entry is already posted.")
  ELSE IF r.state = "confirmed" /\ r.account_move_id # NoMove /\ is_posted(ms, r.account_move_id)
       THEN Err("UserError", "Cannot reset to draft. The journal entry is already posted.")
  ELSE Ok

action_cancel_check(r, ms) ==
  IF r.account_move_id # NoMove /\ is_posted(ms, r.account_move_id)
  THEN Err("UserError", "Cannot cancel. Please reverse the journal entry first.")
  ELSE Ok

\* variant: the state is not tested
unlink_check_cleared_only(r) ==
  IF r.is_cleared
  THEN Err("UserError", "Cannot delete cleared giro. Please reverse the clearing entry first.")
  ELSE Ok

\* variant: is_cleared is not tested
unlink_check_confirmed_only(r) ==
  IF r.state = "confirmed"
  THEN Err("UserError", "Cannot delete confirmed giro. Please cancel it first.")
  ELSE Ok

unlink_check(r) ==
  IF r.state = "confirmed"
  THEN Err("UserError", "Cannot delete confirmed giro. Please cancel it first.")
  ELSE IF r.is_cleared
       THEN Err("UserError", "Cannot delete cleared giro. Please reverse the clearing entry first.")
  ELSE Ok

\* the entries action_draft deletes on its way to the final write
action_draft_unlinks(r, ms) ==
  LET ms1 == IF r.clearing_move_id # NoMove THEN unlink_move(ms, r.clearing_move_id) ELSE ms
  IN  IF r.state = "confirmed" /\ r.account_move_id # NoMove
      THEN unlink_move(ms1, r.account_move_id) ELSE ms1

(* ---------------------------------------------------------------------- *)
(* Requests.  A request is one transaction: a handler that raises leaves   *)
(* the record and the ledger as they were when it was called.              *)
(* ---------------------------------------------------------------------- *)
Idle == [at |-> "idle", op |-> "", move |-> NoMove, saved |-> <<>>]
\* no WIP wizard is open
NoWizard == [exists |-> FALSE]
\* no manufacturing order is being marked done
NoProduction == [exists |-> FALSE]
\* no trial balance wizard is open
NoReport == [exists |-> FALSE]
AllIdle == \A p \in Procs : proc[p] = Idle

Return(op) == last' = [op |-> op, res |-> "ok", msg |-> ""]
Raise(op, error) ==
  /\ last' = [op |-> op, res |-> error.res, msg |-> error.msg]
  /\ UNCHANGED <<record, moves>>

PostingError == Err("PostingError", "the ledger refused to post the entry")

\* create the entry, write the record, post the entry (or fail to)
post_and_link(op, entry, vals) ==
  /\ Len(moves) < MaxMoves
  /\ \E posted \in BOOLEAN :
       IF posted
       THEN /\ moves' = Append(moves, action_post(entry))
            /\ record' = written(record, vals)
            /\ Return(op)
       ELSE Raise(op, PostingError)

action_confirm ==
  /\ AllIdle /\ record.exists /\ UNCHANGED <<proc, wizard, production, report>>
  /\ IF action_confirm_check(record) # Ok
     THEN Raise("action_confirm", action_confirm_check(record))
     ELSE post_and_link("action_confirm", create_account_move(record),
                        [state |-> "confirmed", account_move_id |-> Len(moves) + 1])

\* variant: the final write sets the state alone
action_draft_keeping_links ==
  /\ AllIdle /\ record.exists /\ UNCHANGED <<proc, wizard, production, report>>
  /\ IF action_draft_check(record, moves) # Ok
     THEN Raise("action_draft", action_draft_check(record, moves))
     ELSE /\ moves' = action_draft_unlinks(record, moves)
          /\ record' = written(record, [state |-> "draft"])
          /\ Return("action_draft")

action_draft ==
  /\ AllIdle /\ record.exists /\ UNCHANGED <<proc, wizard, production, report>>
  /\ IF action_draft_check(record, moves) # Ok
     THEN Raise("action_draft", action_draft_check(record, moves))
     ELSE /\ moves' = action_draft_unlinks(record, moves)
          /\ record' = written(record, [state |-> "draft", account_move_id |-> NoMove,
                                        clearing_move_id |-> NoMove])
          /\ Return("action_draft")

\* variant: the write clears the primary and the clearing link as well
action_cancel_clearing_links ==
  /\ AllIdle /\ record.exists /\ UNCHANGED <<proc, wizard, production, report>>
  /\ IF action_cancel_check(record, moves) # Ok
     THEN Raise("action_cancel", action_cancel_check(record, moves))
     ELSE /\ record' = written(record, [state |-> "cancelled", account_move_id |-> NoMove,
                                        clearing_move_id |-> NoMove])
          /\ UNCHANGED moves
          /\ Return("action_cancel")

action_cancel ==
  /\ AllIdle /\ record.exists /\ UNCHANGED <<proc, wizard, production, report>>
  /\ IF action_cancel_check(record, moves) # Ok
     THEN Raise("action_cancel", action_cancel_check(record, moves))
     ELSE /\ record' = written(record, [state |-> "cancelled"])
          /\ UNCHANGED moves
          /\ Return("action_cancel")

action_clearing ==
  /\ AllIdle /\ record.exists /\ UNCHANGED <<proc, wizard, production, report>>
  /\ IF action_clearing_check(record) # Ok
     THEN Raise("action_clearing", action_clearing_check(record))
     ELSE post_and_link("action_clearing", create_clearing_move(record),
                        [clearing_move_id |-> Len(moves) + 1, state |-> "cleared"])

action_reverse_giro ==
  /\ AllIdle /\ record.exists /\ UNCHANGED <<proc, wizard, production, report>>
  /\ IF action_reverse_giro_check(record, moves) # Ok
     THEN Raise("action_reverse_giro", action_reverse_giro_check(record, moves))
     ELSE post_and_link("action_reverse_giro",
                        create_reverse_move(record, moves[record.account_move_id], "Reverse"),
                        [reverse_move_id |-> Len(moves) + 1, state |-> "reversed"])

action_reverse_clearing ==
  /\ AllIdle /\ record.exists /\ UNCHANGED <<proc, wizard, production, report>>
  /\ IF action_reverse_clearing_check(record, moves) # Ok
     THEN Raise("action_reverse_clearing", action_reverse_clearing_check(record, moves))
     ELSE post_and_link("action_reverse_clearing",
                        create_reverse_move(record, moves[record.clearing_move_id], "Reverse Clearing"),
                        [reverse_clearing_move_id |-> Len(moves) + 1, state |-> "clearing_reversed"])

\* record.unlink(): the instrument is deleted, its ledger entries stay
unlink ==
  /\ AllIdle /\ record.exists /\ UNCHANGED <<proc, wizard, production, report>>
  /\ IF unlink_check(record) # Ok
     THEN Raise("unlink", unlink_check(record))
     ELSE /\ record' = [record EXCEPT !.exists = FALSE]
          /\ UNCHANGED moves
          /\ Return("unlink")

\* the ledger's own user resets the instrument's posted entry to draft
\* ("Please cancel the journal entry first"), or posts its draft entry
journal_entry_button_draft ==
  /\ AllIdle /\ record.exists /\ UNCHANGED <<proc, record, wizard, production, report>>
  /\ \E id \in {record.account_move_id, record.clearing_move_id} :
       /\ is_posted(moves, id)
       /\ moves' = [moves EXCEPT ![id].state = "draft"]
  /\ Return("button_draft")

journal_entry_action_post ==
  /\ AllIdle /\ record.exists /\ UNCHANGED <<proc, record, wizard, production, report>>
  /\ \E id \in {record.account_move_id, record.clearing_move_id} \ {NoMove} :
       /\ moves[id].exists /\ moves[id].state = "draft"
       /\ moves' = [moves EXCEPT ![id] = action_post(moves[id])]
  /\ Return("button_post")

(* ---------------------------------------------------------------------- *)
(* Specification Spec: every handler as one request                        *)
(* ---------------------------------------------------------------------- *)
NewRecord(ptype, partner, amount, bank, company) ==
  recompute([exists |-> TRUE, state |-> "draft", partner_type |-> ptype, partner_id |-> partner,
             amount |-> amount, giro_account_id |-> "acc_giro",
             journal_bank_id |-> bank, company_id |-> company,
             account_move_id |-> NoMove, clearing_move_id |-> NoMove,
             reverse_move_id |-> NoMove, reverse_clearing_move_id |-> NoMove,
             is_cleared |-> FALSE, is_reversed |-> FALSE, is_clearing_reversed |-> FALSE])

Init ==
  /\ \E ptype \in PartnerTypes, partner \in Partners, amount \in Amounts,
        bank \in BankJournals, company \in Companies :
       record = NewRecord(ptype, partner, amount, bank, company)
  /\ moves = <<>>
  /\ last = [op |-> "create", res |-> "ok", msg |-> ""]
  /\ proc = [p \in Procs |-> Idle]
  /\ report = NoReport
  /\ production = NoProduction
  /\ wizard = NoWizard

Next ==
  \/ action_confirm
  \/ action_draft
  \/ action_cancel
  \/ action_clearing
  \/ action_reverse_giro
  \/ action_reverse_clearing
  \/ unlink
  \/ journal_entry_button_draft
  \/ journal_entry_action_post

Spec == Init /\ [][Next]_vars

(* ---------------------------------------------------------------------- *)
(* The posting handlers statement by statement: test the preconditions,    *)
(* create the entry, write the record, post the entry                      *)
(* ---------------------------------------------------------------------- *)
PostingHandlers ==
  {"action_confirm", "action_clearing", "action_reverse_giro", "action_reverse_clearing"}

handler_check(op, r, ms) ==
  CASE op = "action_confirm" -> action_confirm_check(r)
    [] op = "action_clearing" -> action_clearing_check(r)
    [] op = "action_reverse_giro" -> action_reverse_giro_check(r, ms)
    [] op = "action_reverse_clearing" -> action_reverse_clearing_check(r, ms)

handler_entry(op, r, ms) ==
  CASE op = "action_confirm" -> create_account_move(r)
    [] op = "action_clearing" -> create_clearing_move(r)
    [] op = "action_reverse_giro" -> create_reverse_move(r, ms[r.account_move_id], "Reverse")
    [] op = "action_reverse_clearing" ->
         create_reverse_move(r, ms[r.clearing_move_id], "Reverse Clearing")

handler_vals(op, id) ==
  CASE op = "action_confirm" -> [state |-> "confirmed", account_move_id |-> id]
    [] op = "action_clearing" -> [clearing_move_id |-> id, state |-> "cleared"]
    [] op = "action_reverse_giro" -> [reverse_move_id |-> id, state |-> "reversed"]
    [] op = "action_reverse_clearing" ->
         [reverse_clearing_move_id |-> id, state |-> "clearing_reversed"]

\* the request enters the handler and runs its validation block
step_check(p, op) ==
  /\ proc[p] = Idle /\ record.exists /\ UNCHANGED <<wizard, production, report>>
  /\ IF handler_check(op, record, moves) # Ok
     THEN Raise(op, handler_check(op, record, moves)) /\ UNCHANGED proc
     ELSE /\ proc' = [proc EXCEPT ![p] = [at |-> "checked", op |-> op, move |-> NoMove,
                                          saved |-> record]]
          /\ UNCHANGED <<record, moves, last>>

\* move = record._create_..._move()
step_create(p) ==
  /\ proc[p].at = "checked"
  /\ Len(moves) < MaxMoves
  /\ moves' = Append(moves, handler_entry(proc[p].op, record, moves))
  /\ proc' = [proc EXCEPT ![p].at = "created", ![p].move = Len(moves) + 1]
  /\ UNCHANGED <<record, last, wizard, production, report>>

\* record.write({...})
step_write(p) ==
  /\ proc[p].at = "created"
  /\ record' = written(record, handler_vals(proc[p].op, proc[p].move))
  /\ proc' = [proc EXCEPT ![p].at = "written"]
  /\ UNCHANGED <<moves, last, wizard, production, report>>

\* move.action_post() returns
step_post(p) ==
  /\ proc[p].at = "written"
  /\ moves' = [moves EXCEPT ![proc[p].move] = action_post(moves[proc[p].move])]
  /\ proc' = [proc EXCEPT ![p] = Idle]
  /\ Return(proc[p].op)
  /\ UNCHANGED <<record, wizard, production, report>>

\* move.action_post() raises: the exception leaves the handler
step_post_raises(p) ==
  /\ proc[p].at = "written"
  /\ proc' = [proc EXCEPT ![p].at = "raised"]
  /\ Raise(proc[p].op, PostingError)
  /\ UNCHANGED <<wizard, production, report>>

\* the request's transaction is rolled back by the caller of the handler
step_rollback(p) ==
  /\ proc[p].at = "raised"
  /\ record' = proc[p].saved
  /\ moves' = SubSeq(moves, 1, proc[p].move - 1)
  /\ proc' = [proc EXCEPT ![p] = Idle]
  /\ UNCHANGED <<last, wizard, production, report>>

(* ---------------------------------------------------------------------- *)
(* Specification SpecSteps: one request at a time, the posting handlers    *)
(* statement by statement                                                  *)
(* ---------------------------------------------------------------------- *)
NextSteps ==
  \/ \E op \in PostingHandlers : step_check(1, op)
  \/ step_create(1)
  \/ step_write(1)
  \/ step_post(1)
  \/ step_post_raises(1)
  \/ step_rollback(1)
  \/ action_draft
  \/ action_cancel

SpecSteps == Init /\ [][NextSteps]_vars

(* ---------------------------------------------------------------------- *)
(* Specification SpecConc: two requests of confirm or clear on the same    *)
(* instrument, interleaved statement by statement                          *)
(* ---------------------------------------------------------------------- *)
NextConc ==
  \E p \in Procs :
    \/ step_check(p, "action_confirm")
    \/ step_check(p, "action_clearing")
    \/ step_create(p)
    \/ step_write(p)
    \/ step_post(p)

SpecConc == Init /\ [][NextConc]_vars

(* ---------------------------------------------------------------------- *)
(* Specification SpecReverse: _create_reverse_move applied again and again *)
(* to an arbitrary two-line entry                                          *)
(* ---------------------------------------------------------------------- *)
LineAccounts == {"acc_giro", "acc_payable"}
LinePartners == {"p_full", "no_partner"}
EntryLines ==
  {Line(a, p, d, c) : a \in LineAccounts, p \in LinePartners, d \in Amounts, c \in Amounts}

InitReverse ==
  /\ record = NewRecord("vendor", "p_full", 1, NoJournal, "c_gen")
  /\ \E l1 \in EntryLines, l2 \in EntryLines :
       moves = << action_post(Move("j_general", "name", <<l1, l2>>, "p_full")) >>
  /\ last = [op |-> "create", res |-> "ok", msg |-> ""]
  /\ proc = [p \in Procs |-> Idle]
  /\ report = NoReport
  /\ production = NoProduction
  /\ wizard = NoWizard

\* reverse the newest entry and post the reversal
reverse_newest ==
  /\ Len(moves) < MaxMoves
  /\ moves' = Append(moves, action_post(create_reverse_move(record, moves[Len(moves)], "Reverse")))
  /\ Return("_create_reverse_move")
  /\ UNCHANGED <<record, proc, wizard, production, report>>

NextReverse == reverse_newest

SpecReverse == InitReverse /\ [][NextReverse]_vars

(* ---------------------------------------------------------------------- *)
(* WIP wizard: mrp.account.wip.accounting and its lines.  Amounts are in   *)
(* the currency's smallest unit (0.01).                                    *)
(* ---------------------------------------------------------------------- *)
Categories ==
  {"categ_full", "categ_bare", "categ_cost", "categ_input", "categ_empty", "no_categ"}

\* product.category account properties, read with the wizard's company
property_stock_valuation_account_id(categ) ==
  IF categ \in {"categ_full", "categ_bare", "categ_cost", "categ_input"}
  THEN "acc_valuation" ELSE NoAccount
property_stock_account_input_categ_id(categ) ==
  IF categ \in {"categ_full", "categ_input"} THEN "acc_input" ELSE NoAccount
property_stock_account_output_categ_id(categ) ==
  IF categ = "categ_full" THEN "acc_output" ELSE NoAccount
property_stock_account_production_cost_id(categ) ==
  IF categ \in {"categ_full", "categ_cost"} THEN "acc_production_cost" ELSE NoAccount
az_property_wip_account_id(categ) ==
  IF categ \in {"categ_full", "categ_cost", "categ_input"} THEN "acc_wip_categ" ELSE NoAccount
az_property_raw_material_account_id(categ) ==
  IF categ = "categ_full" THEN "acc_raw_material" ELSE NoAccount

\* companies of the wizard: "c_fallback" has no account of its own, only the
\* global property defaults
WipCompanies == Companies \cup {"c_fallback"}

\* res.company defaults
account_production_wip_account_id(company) ==
  IF company = "c_gen" THEN "acc_wip_company" ELSE NoAccount
account_production_wip_overhead_account_id(company) ==
  IF company = "c_gen" THEN "acc_overhead_company" ELSE NoAccount

\* field.get_company_dependent_fallback(ProductCategory)
get_field_fallback(field_name, company) ==
  IF company \notin {"c_gen", "c_fallback"} THEN NoAccount
  ELSE CASE field_name = "property_stock_valuation_account_id" -> "acc_valuation_default"
         [] field_name = "property_stock_account_input_categ_id" -> "acc_input_default"
         [] field_name = "property_stock_account_output_categ_id" -> "acc_output_default"
         [] field_name = "property_stock_account_production_cost_id" -> "acc_production_cost_default"

\* days, counted from the day the wizard is opened
Today == 0
NoLot == "no_lot"

\* a stock.move.line of a raw-material move
MoveLine(picked, quantity, date, lot_valuated, lot_id, lot_price, standard_price) ==
  [picked |-> picked, quantity |-> quantity, date |-> date, lot_valuated |-> lot_valuated,
   lot_id |-> lot_id, lot_standard_price |-> lot_price, standard_price |-> standard_price]

\* a manufacturing order: its product's category, the move lines of its
\* raw-material moves and the cost of its work orders
ProductionOf(categ, move_lines, overhead_value) ==
  [categ_id |-> categ, move_line_ids |-> move_lines, overhead_value |-> overhead_value]

\* an order that has consumed one unit of one component at price compo_value
Production(categ, compo_value, overhead_value) ==
  ProductionOf(categ, << MoveLine(TRUE, 1, Today, FALSE, NoLot, 0, compo_value) >>,
               overhead_value)

resolve_wip_account(categ, company) ==
  IF az_property_wip_account_id(categ) # NoAccount THEN az_property_wip_account_id(categ)
  ELSE IF account_production_wip_account_id(company) # NoAccount
       THEN account_production_wip_account_id(company)
       ELSE NoAccount

\* product.category has no field az_property_overhead_account_id: the chain
\* starts at the company
resolve_overhead_account(categ, company) ==
  IF account_production_wip_overhead_account_id(company) # NoAccount
  THEN account_production_wip_overhead_account_id(company)
  ELSE IF property_stock_account_production_cost_id(categ) # NoAccount
       THEN property_stock_account_production_cost_id(categ)
       ELSE IF property_stock_account_input_categ_id(categ) # NoAccount
            THEN property_stock_account_input_categ_id(categ)
            ELSE NoAccount

\* _get_overhead_account: the account it returns, NoAccount where it raises
get_overhead_account(productions, company) ==
  IF account_production_wip_overhead_account_id(company) # NoAccount
  THEN account_production_wip_overhead_account_id(company)
  ELSE LET categ == IF productions = <<>> THEN "no_categ" ELSE productions[1].categ_id
           cop_acc == get_field_fallback("property_stock_account_production_cost_id", company)
           input_acc == get_field_fallback("property_stock_account_input_categ_id", company)
       IN IF productions # <<>> /\ property_stock_account_production_cost_id(categ) # NoAccount
          THEN property_stock_account_production_cost_id(categ)
          ELSE IF productions # <<>> /\ property_stock_account_input_categ_id(categ) # NoAccount
               THEN property_stock_account_input_categ_id(categ)
               ELSE IF cop_acc # NoAccount THEN cop_acc
                    ELSE IF input_acc # NoAccount THEN input_acc
                         ELSE NoAccount

get_overhead_account_check(productions, company) ==
  IF get_overhead_account(productions, company) # NoAccount THEN Ok
  ELSE Err("UserError", "Could not determine overhead account")

resolve_raw_material_account(categ) ==
  IF az_property_raw_material_account_id(categ) # NoAccount
  THEN az_property_raw_material_account_id(categ)
  ELSE IF property_stock_valuation_account_id(categ) # NoAccount
       THEN property_stock_valuation_account_id(categ)
       ELSE NoAccount

get_fallback_accounts(company) ==
  [stock_valuation |-> get_field_fallback("property_stock_valuation_account_id", company),
   stock_input |-> get_field_fallback("property_stock_account_input_categ_id", company),
   stock_output |-> get_field_fallback("property_stock_account_output_categ_id", company),
   wip |-> account_production_wip_account_id(company),
   overhead |-> account_production_wip_overhead_account_id(company),
   raw_material |-> get_field_fallback("property_stock_valuation_account_id", company)]

validate_accounts(accounts) ==
  IF accounts.stock_valuation = NoAccount \/ accounts.wip = NoAccount
     \/ accounts.overhead = NoAccount
  THEN Err("UserError", "The following accounts are not configured for Product Category")
  ELSE Ok

\* variant: the accounts go by the category of the last order
get_accounts_from_category_of_last_order(productions, company) ==
  IF productions = <<>> \/ productions[Len(productions)].categ_id = "no_categ"
  THEN get_fallback_accounts(company)
  ELSE LET category == productions[Len(productions)].categ_id
       IN [stock_valuation |-> property_stock_valuation_account_id(category),
           stock_input |-> property_stock_account_input_categ_id(category),
           stock_output |-> property_stock_account_output_categ_id(category),
           wip |-> resolve_wip_account(category, company),
           overhead |-> resolve_overhead_account(category, company),
           raw_material |-> resolve_raw_material_account(category)]

\* the accounts _get_accounts_from_category returns when it returns
get_accounts_from_category(productions, company) ==
  IF productions = <<>> \/ productions[1].categ_id = "no_categ"
  THEN get_fallback_accounts(company)
  ELSE LET category == productions[1].categ_id
       IN [stock_valuation |-> property_stock_valuation_account_id(category),
           stock_input |-> property_stock_account_input_categ_id(category),
           stock_output |-> property_stock_account_output_categ_id(category),
           wip |-> resolve_wip_account(category, company),
           overhead |-> resolve_overhead_account(category, company),
           raw_material |-> resolve_raw_material_account(category)]

\* ... and the error it raises instead: the fallback accounts are not validated
get_accounts_from_category_check(productions, company) ==
  IF productions = <<>> \/ productions[1].categ_id = "no_categ"
  THEN Ok
  ELSE validate_accounts(get_accounts_from_category(productions, company))

RECURSIVE sum(_)
sum(values) == IF values = <<>> THEN 0 ELSE Head(values) + sum(Tail(values))

\* productions.move_raw_ids.move_line_ids
RECURSIVE move_line_ids(_)
move_line_ids(productions) ==
  IF productions = <<>> THEN <<>>
  ELSE Head(productions).move_line_ids \o move_line_ids(Tail(productions))

unit_price(ml) ==
  IF ml.lot_valuated /\ ml.lot_id # NoLot /\ ml.lot_standard_price # 0
  THEN ml.lot_standard_price
  ELSE ml.standard_price

\* what one move line adds; the cutoff is the end of the day `date`
line_value(ml, date) ==
  IF ~ml.picked \/ ml.quantity = 0 THEN 0
  ELSE IF ml.date > date THEN 0
  ELSE ml.quantity * unit_price(ml)

calculate_component_value(productions, date) ==
  sum([i \in 1 .. Len(move_line_ids(productions)) |->
         line_value(move_line_ids(productions)[i], date)])
calculate_overhead_value(productions, date) ==
  sum([i \in 1 .. Len(productions) |-> productions[i].overhead_value])

WipLine(sequence, line_type, debit, credit, account) ==
  [sequence |-> sequence, line_type |-> line_type, debit |-> debit, credit |-> credit,
   account_id |-> account]

\* variant: the WIP line carries the component value alone
get_line_vals_component_only(productions, date, company) ==
  LET compo_value == calculate_component_value(productions, date)
      overhead_value == calculate_overhead_value(productions, date)
      accounts == get_accounts_from_category(productions, company)
  IN (IF compo_value # 0
      THEN << WipLine(10, "component", 0, compo_value, accounts.stock_valuation) >> ELSE <<>>)
     \o (IF overhead_value # 0
         THEN << WipLine(20, "overhead", 0, overhead_value, accounts.overhead) >> ELSE <<>>)
     \o (IF compo_value # 0
         THEN << WipLine(30, "wip", compo_value, 0, accounts.wip) >> ELSE <<>>)

get_line_vals(productions, date, company) ==
  LET compo_value == calculate_component_value(productions, date)
      overhead_value == calculate_overhead_value(productions, date)
      accounts == get_accounts_from_category(productions, company)
      total_wip == compo_value + overhead_value
  IN (IF compo_value # 0
      THEN << WipLine(10, "component", 0, compo_value, accounts.stock_valuation) >> ELSE <<>>)
     \o (IF overhead_value # 0
         THEN << WipLine(20, "overhead", 0, overhead_value, accounts.overhead) >> ELSE <<>>)
     \o (IF total_wip # 0
         THEN << WipLine(30, "wip", total_wip, 0, accounts.wip) >> ELSE <<>>)

\* the line model's constraints and required account; the module does not
\* import the ValidationError its constraint raises
check_debit_credit(line) ==
  IF line.debit < 0 \/ line.credit < 0 \/ (line.debit # 0 /\ line.credit # 0)
  THEN Err("NameError", "name 'ValidationError' is not defined")
  ELSE Ok

check_line(line) ==
  IF line.account_id = NoAccount
  THEN Err("ValidationError", "missing required field account_id")
  ELSE check_debit_credit(line)

check_lines(lines) ==
  IF \E i \in 1 .. Len(lines) : check_line(lines[i]) # Ok
  THEN check_line(lines[CHOOSE i \in 1 .. Len(lines) :
                          /\ check_line(lines[i]) # Ok
                          /\ \A j \in 1 .. i - 1 : check_line(lines[j]) = Ok])
  ELSE Ok

\* _compute_line_ids: the lines it stores, or the error that leaves it
compute_line_ids(productions, date, company) ==
  IF productions = <<>> THEN <<>> ELSE get_line_vals(productions, date, company)

compute_line_ids_check(productions, date, company) ==
  IF productions = <<>> THEN Ok
  ELSE IF get_accounts_from_category_check(productions, company) # Ok
       THEN get_accounts_from_category_check(productions, company)
       ELSE check_lines(get_line_vals(productions, date, company))

total_debit(lines) == sum([i \in 1 .. Len(lines) |-> lines[i].debit])
total_credit(lines) == sum([i \in 1 .. Len(lines) |-> lines[i].credit])

\* 0.01, the tolerance of is_balanced
BalanceTolerance == 1

\* is_balanced = abs(total_debit - total_credit) < 0.01 on binary floating
\* point: a difference of exactly 0.01 compares either way (0.03 - 0.02 is
\* below 0.01, 0.02 - 0.01 is not)
is_balanced(lines) ==
  LET difference == total_debit(lines) - total_credit(lines)
      distance == IF difference < 0 THEN 0 - difference ELSE difference
  IN IF distance < BalanceTolerance THEN {TRUE}
     ELSE IF distance = BalanceTolerance THEN BOOLEAN ELSE {FALSE}

\* _compute_reversal_date: the day after the entry date
compute_reversal_date(date) == date + 1

\* variant: the entry is reversed on its own date
reversal_date_of_entry(w) == w.date

\* the date handed to the reversal wizard
reversal_date_of(w) == w.reversal_date

\* an entry with its accounting date
Dated(entry, date) == entry @@ [date |-> date]

prepare_move_vals(w) ==
  Dated(Move(w.journal_id, w.reference,
             [i \in 1 .. Len(w.line_ids) |->
                Line(w.line_ids[i].account_id, "no_partner", w.line_ids[i].debit,
                     w.line_ids[i].credit)],
             "no_partner"),
        w.date)

\* the ledger refuses to create an entry whose debits and credits differ
check_balanced(entry) ==
  IF total_debit(entry.line_ids) # total_credit(entry.line_ids)
  THEN Err("UserError", "The entry is not balanced.")
  ELSE Ok

\* account.move.reversal.reverse_moves(): the entry with debit and credit swapped
reverse_moves(entry, date) ==
  Dated(Move(entry.journal_id, "Reversal",
             [i \in 1 .. Len(entry.line_ids) |->
                Line(entry.line_ids[i].account_id, entry.line_ids[i].partner_id,
                     entry.line_ids[i].credit, entry.line_ids[i].debit)],
             entry.partner_id),
        date)

\* variant: a wizard without lines is not turned away
wip_action_post_check_lines_untested(w, balanced) ==
  IF ~balanced
  THEN Err("UserError", "The journal entry is not balanced.")
  ELSE Ok

\* the validation block of the wizard's action_post
wip_action_post_check(w, balanced) ==
  IF w.line_ids = <<>>
  THEN Err("UserError", "No lines to post. Please add at least one line.")
  ELSE IF ~balanced
       THEN Err("UserError", "The journal entry is not balanced.")
       ELSE Ok

\* the first error on the way to a created entry
wip_create_check(w, balanced) ==
  IF wip_action_post_check(w, balanced) # Ok
  THEN wip_action_post_check(w, balanced)
  ELSE check_balanced(prepare_move_vals(w))

WipRaise(op, error) ==
  /\ last' = [op |-> op, res |-> error.res, msg |-> error.msg]
  /\ UNCHANGED <<moves, wizard>>

\* the wizard's action_post
wip_action_post ==
  /\ wizard.exists /\ UNCHANGED <<record, proc, production, report>>
  /\ \E balanced \in is_balanced(wizard.line_ids) :
       IF wip_create_check(wizard, balanced) # Ok
       THEN WipRaise("action_post", wip_create_check(wizard, balanced))
       ELSE \E posted \in BOOLEAN :
              IF posted
              THEN /\ Len(moves) < MaxWipMoves
                   /\ moves' = Append(moves, action_post(prepare_move_vals(wizard)))
                   /\ wizard' = [wizard EXCEPT !.move_id = Len(moves) + 1,
                                               !.state = "posted"]
                   /\ Return("action_post")
              ELSE WipRaise("action_post", PostingError)

\* action_post_and_reverse: action_post, then the reversal of its entry; a
\* reversal dated in the future waits in draft for its date
wip_action_post_and_reverse ==
  /\ wizard.exists /\ UNCHANGED <<record, proc, production, report>>
  /\ \E balanced \in is_balanced(wizard.line_ids) :
       IF wip_create_check(wizard, balanced) # Ok
       THEN WipRaise("action_post_and_reverse", wip_create_check(wizard, balanced))
       ELSE \E posted \in BOOLEAN :
              IF posted
              THEN /\ Len(moves) + 1 < MaxWipMoves
                   /\ \E reversal_state \in {"draft", "posted"} :
                        LET move == action_post(prepare_move_vals(wizard))
                            reversal_move == [reverse_moves(move, reversal_date_of(wizard))
                                               EXCEPT !.state = reversal_state]
                        IN moves' = moves \o << move, reversal_move >>
                   /\ wizard' = [wizard EXCEPT !.move_id = Len(moves) + 1,
                                               !.reversal_move_id = Len(moves) + 2,
                                               !.state = "reversed"]
                   /\ Return("action_post_and_reverse")
              ELSE WipRaise("action_post_and_reverse", PostingError)

\* variant: the computed lines are added to the lines the wizard has
action_refresh_lines_keeping_lines ==
  /\ wizard.exists /\ UNCHANGED <<record, proc, production, report>>
  /\ IF compute_line_ids_check(wizard.mo_ids, wizard.date, wizard.company_id) # Ok
     THEN WipRaise("action_refresh_lines",
                   compute_line_ids_check(wizard.mo_ids, wizard.date, wizard.company_id))
     ELSE /\ wizard' = [wizard EXCEPT
                          !.line_ids = wizard.line_ids \o
                            compute_line_ids(wizard.mo_ids, wizard.date, wizard.company_id)]
          /\ UNCHANGED moves
          /\ Return("action_refresh_lines")

action_refresh_lines ==
  /\ wizard.exists /\ UNCHANGED <<record, proc, production, report>>
  /\ IF compute_line_ids_check(wizard.mo_ids, wizard.date, wizard.company_id) # Ok
     THEN WipRaise("action_refresh_lines",
                   compute_line_ids_check(wizard.mo_ids, wizard.date, wizard.company_id))
     ELSE /\ wizard' = [wizard EXCEPT
                          !.line_ids = compute_line_ids(wizard.mo_ids, wizard.date, wizard.company_id)]
          /\ UNCHANGED moves
          /\ Return("action_refresh_lines")

\* the user selects other manufacturing orders: the lines are recomputed
write_mo_ids(productions) ==
  /\ wizard.exists /\ UNCHANGED <<record, proc, production, report>>
  /\ IF compute_line_ids_check(productions, wizard.date, wizard.company_id) # Ok
     THEN WipRaise("write", compute_line_ids_check(productions, wizard.date, wizard.company_id))
     ELSE /\ wizard' = [wizard EXCEPT
                          !.mo_ids = productions,
                          !.line_ids = compute_line_ids(productions, wizard.date, wizard.company_id)]
          /\ UNCHANGED moves
          /\ Return("write")

\* the user edits the amount of a line, on the side the line is on
write_line(i, amount) ==
  /\ wizard.exists /\ UNCHANGED <<record, proc, production, report>>
  /\ i \in 1 .. Len(wizard.line_ids)
  /\ LET line == IF wizard.line_ids[i].line_type = "wip"
                 THEN [wizard.line_ids[i] EXCEPT !.debit = amount]
                 ELSE [wizard.line_ids[i] EXCEPT !.credit = amount]
     IN IF check_debit_credit(line) # Ok
        THEN WipRaise("write", check_debit_credit(line))
        ELSE /\ wizard' = [wizard EXCEPT !.line_ids[i] = line]
             /\ UNCHANGED moves
             /\ Return("write")

\* the user sets the entry date: the reversal date and the lines are recomputed
write_date(date) ==
  /\ wizard.exists /\ UNCHANGED <<record, proc, production, report>>
  /\ IF compute_line_ids_check(wizard.mo_ids, date, wizard.company_id) # Ok
     THEN WipRaise("write", compute_line_ids_check(wizard.mo_ids, date, wizard.company_id))
     ELSE /\ wizard' = [wizard EXCEPT
                          !.date = date,
                          !.reversal_date = compute_reversal_date(date),
                          !.line_ids = compute_line_ids(wizard.mo_ids, date, wizard.company_id)]
          /\ UNCHANGED moves
          /\ Return("write")

\* the user adds a line of type "other" by hand
create_line(amount) ==
  /\ wizard.exists /\ UNCHANGED <<record, proc, production, report>>
  /\ Len(wizard.line_ids) < MaxLines
  /\ LET line == WipLine(10, "other", amount, 0, "acc_manual")
     IN IF check_line(line) # Ok
        THEN WipRaise("create", check_line(line))
        ELSE /\ wizard' = [wizard EXCEPT !.line_ids = Append(wizard.line_ids, line)]
             /\ UNCHANGED moves
             /\ Return("create")

\* the user sets the reversal date
write_reversal_date(date) ==
  /\ wizard.exists /\ UNCHANGED <<record, proc, production, report>>
  /\ wizard' = [wizard EXCEPT !.reversal_date = date]
  /\ UNCHANGED moves
  /\ Return("write")

NewWizard(productions, date, company) ==
  [exists |-> TRUE, state |-> "draft", mo_ids |-> productions, company_id |-> company,
   date |-> date, reversal_date |-> compute_reversal_date(date),
   journal_id |-> "j_stock", reference |-> "Manufacturing WIP",
   line_ids |-> compute_line_ids(productions, date, company),
   move_id |-> NoMove, reversal_move_id |-> NoMove]

(* ---------------------------------------------------------------------- *)
(* Specification SpecWip: one wizard on a configured category, its lines   *)
(* edited, refreshed and posted                                            *)
(* ---------------------------------------------------------------------- *)
InitWip ==
  /\ \E productions \in {<<>>} \cup
          {<< Production("categ_full", value, value) >> : value \in 1 .. MaxAmount} :
       wizard = NewWizard(productions, Today, "c_gen")
  /\ record = NewRecord("vendor", "p_full", 1, NoJournal, "c_gen")
  /\ moves = <<>>
  /\ last = [op |-> "create", res |-> "ok", msg |-> ""]
  /\ proc = [p \in Procs |-> Idle]
  /\ report = NoReport
  /\ production = NoProduction

NextWip ==
  \/ wip_action_post
  \/ wip_action_post_and_reverse
  \/ action_refresh_lines
  \/ \E i \in 1 .. Len(wizard.line_ids), amount \in Amounts : write_line(i, amount)

SpecWip == InitWip /\ [][NextWip]_vars

(* ---------------------------------------------------------------------- *)
(* Specification SpecLines: the lines computed for every selection of      *)
(* orders, category and company                                            *)
(* ---------------------------------------------------------------------- *)
Productions ==
  {<<>>} \cup {<< Production(categ, c, o) >> : categ \in Categories, c \in Amounts, o \in Amounts}

InitLines ==
  /\ \E productions \in Productions, company \in WipCompanies :
       /\ compute_line_ids_check(productions, Today, company) = Ok
       /\ wizard = NewWizard(productions, Today, company)
  /\ record = NewRecord("vendor", "p_full", 1, NoJournal, "c_gen")
  /\ moves = <<>>
  /\ last = [op |-> "create", res |-> "ok", msg |-> ""]
  /\ proc = [p \in Procs |-> Idle]
  /\ report = NoReport
  /\ production = NoProduction

\* a call of the wizard's _get_overhead_account with any set of orders
call_get_overhead_account(productions) ==
  /\ wizard.exists
  /\ LET r == get_overhead_account_check(productions, wizard.company_id)
     IN last' = IF r = Ok
                THEN [op |-> "_get_overhead_account", res |-> "ok",
                      msg |-> get_overhead_account(productions, wizard.company_id)]
                ELSE [op |-> "_get_overhead_account", res |-> r.res, msg |-> r.msg]
  /\ UNCHANGED <<record, moves, proc, wizard, production, report>>

NextLines ==
  \/ action_refresh_lines
  \/ \E productions \in Productions : write_mo_ids(productions)
  \/ \E productions \in Productions : call_get_overhead_account(productions)

SpecLines == InitLines /\ [][NextLines]_vars

(* ---------------------------------------------------------------------- *)
(* Specification SpecReversal: a wizard with balanced lines, its dates set *)
(* and its entry posted and reversed                                       *)
(* ---------------------------------------------------------------------- *)
Dates == Today .. MaxDate

InitReversal ==
  /\ \E date \in Dates :
       wizard = NewWizard(<< Production("categ_full", 1, 1) >>, date, "c_gen")
  /\ record = NewRecord("vendor", "p_full", 1, NoJournal, "c_gen")
  /\ moves = <<>>
  /\ last = [op |-> "create", res |-> "ok", msg |-> ""]
  /\ proc = [p \in Procs |-> Idle]
  /\ report = NoReport
  /\ production = NoProduction

NextReversal ==
  \/ \E date \in Dates : write_date(date)
  \/ \E date \in Dates : write_reversal_date(date)
  \/ wip_action_post
  \/ wip_action_post_and_reverse

SpecReversal == InitReversal /\ [][NextReversal]_vars

\* the wizard on one order with one or two raw-material move lines of every
\* kind: picked or not, with or without quantity, on any day, of a product
\* that is lot valuated or not, with or without a lot, at any prices
UnitPrices == 0 .. MaxAmount
Lots == {NoLot, "lot_1"}
MoveLines ==
  {MoveLine(picked, quantity, date, lot_valuated, lot_id, lot_price, standard_price) :
     picked \in BOOLEAN, quantity \in {0, 1}, date \in Dates, lot_valuated \in BOOLEAN,
     lot_id \in Lots, lot_price \in UnitPrices, standard_price \in UnitPrices}
SecondMoveLines == {<<>>, << MoveLine(TRUE, 1, Today, FALSE, NoLot, 0, 1) >>}

InitComponent ==
  /\ \E ml \in MoveLines, second \in SecondMoveLines, date \in Dates :
       /\ ml.lot_id = NoLot => ml.lot_standard_price = 0
       /\ wizard = NewWizard(<< ProductionOf("categ_full", << ml >> \o second, 0) >>,
                             date, "c_gen")
  /\ record = NewRecord("vendor", "p_full", 1, NoJournal, "c_gen")
  /\ moves = <<>>
  /\ last = [op |-> "create", res |-> "ok", msg |-> ""]
  /\ proc = [p \in Procs |-> Idle]
  /\ report = NoReport
  /\ production = NoProduction

NextComponent ==
  \/ action_refresh_lines
  \/ \E date \in Dates : write_date(date)

SpecComponent == InitComponent /\ [][NextComponent]_vars

\* the wizard on a batch of two orders of any two categories
Batches ==
  {<< Production(first, c, o), Production(second, 1, 1) >> :
     first \in Categories, second \in Categories, c \in UnitPrices, o \in UnitPrices}

InitBatch ==
  /\ \E productions \in Batches, company \in Companies :
       /\ compute_line_ids_check(productions, Today, company) = Ok
       /\ wizard = NewWizard(productions, Today, company)
  /\ record = NewRecord("vendor", "p_full", 1, NoJournal, "c_gen")
  /\ moves = <<>>
  /\ last = [op |-> "create", res |-> "ok", msg |-> ""]
  /\ proc = [p \in Procs |-> Idle]
  /\ report = NoReport
  /\ production = NoProduction

NextBatch ==
  \/ action_refresh_lines
  \/ \E productions \in Batches : write_mo_ids(productions)

SpecBatch == InitBatch /\ [][NextBatch]_vars

\* the wizard in the hands of a user who edits and adds lines, selects other
\* orders, changes the date and refreshes; the third order consumes its
\* component on day MaxDate
EditProductions ==
  {<<>>, << Production("categ_full", 1, 1) >>, << Production("categ_full", 1, 0) >>,
   << ProductionOf("categ_full", << MoveLine(TRUE, 1, MaxDate, FALSE, NoLot, 0, 1) >>, 0) >>}

InitEdit ==
  /\ \E productions \in EditProductions :
       wizard = NewWizard(productions, Today, "c_gen")
  /\ record = NewRecord("vendor", "p_full", 1, NoJournal, "c_gen")
  /\ moves = <<>>
  /\ last = [op |-> "create", res |-> "ok", msg |-> ""]
  /\ proc = [p \in Procs |-> Idle]
  /\ report = NoReport
  /\ production = NoProduction

NextEdit ==
  \/ action_refresh_lines
  \/ \E productions \in EditProductions : write_mo_ids(productions)
  \/ \E date \in Dates : write_date(date)
  \/ \E i \in 1 .. Len(wizard.line_ids), amount \in Amounts : write_line(i, amount)
  \/ \E amount \in Amounts : create_line(amount)

SpecEdit == InitEdit /\ [][NextEdit]_vars

(* ---------------------------------------------------------------------- *)
(* mrp.production: button_mark_done and the RAF / pick entry               *)
(* ---------------------------------------------------------------------- *)
az_property_raf_account_id(categ) ==
  IF categ = "categ_full" THEN "acc_raf" ELSE NoAccount

\* a raw-material stock.move: its state, the sum of its valuation layers, its
\* quantity, its product's standard price and category
RawMove(state, layer_value, standard_price, categ) ==
  [state |-> state, layer_value |-> layer_value, quantity |-> 1,
   standard_price |-> standard_price, categ_id |-> categ]

\* a finished stock.move: whether its product is the order's product
FinishedMove(state, same_product, layer_value, standard_price) ==
  [state |-> state, same_product |-> same_product, layer_value |-> layer_value,
   quantity |-> 1, standard_price |-> standard_price]

raw_move_cost(move) ==
  LET layers == IF move.layer_value < 0 THEN 0 - move.layer_value ELSE move.layer_value
  IN IF layers = 0 THEN move.quantity * move.standard_price ELSE layers

finished_move_cost(move) ==
  IF move.layer_value = 0 THEN move.quantity * move.standard_price ELSE move.layer_value

\* the raw moves that add to the pick entry
costed(move) == move.state = "done" /\ raw_move_cost(move) > 0

\* the account the pick entry credits for a raw move
raw_material_account(move) == az_property_raw_material_account_id(move.categ_id)

\* the account the entry debits and credits as WIP
wip_account(p) == az_property_wip_account_id(p.categ_id)

\* raw_material_credits: amount per account, in the order the accounts are
\* first met
RECURSIVE raw_material_credits(_)
raw_material_credits(raw_moves) ==
  IF raw_moves = <<>> THEN <<>>
  ELSE LET before == raw_material_credits(SubSeq(raw_moves, 1, Len(raw_moves) - 1))
           move == raw_moves[Len(raw_moves)]
           known == {i \in 1 .. Len(before) : before[i].account_id = raw_material_account(move)}
       IN IF ~costed(move) THEN before
          ELSE IF known # {}
               THEN [i \in 1 .. Len(before) |->
                       IF i \in known
                       THEN [before[i] EXCEPT !.amount = @ + raw_move_cost(move)]
                       ELSE before[i]]
               ELSE Append(before, [account_id |-> raw_material_account(move),
                                    amount |-> raw_move_cost(move)])

total_raw_material_cost(raw_moves) ==
  sum([i \in 1 .. Len(raw_moves) |->
         IF costed(raw_moves[i]) THEN raw_move_cost(raw_moves[i]) ELSE 0])

total_finished_cost(finished_moves) ==
  sum([i \in 1 .. Len(finished_moves) |->
         IF finished_moves[i].state = "done" /\ finished_moves[i].same_product
         THEN finished_move_cost(finished_moves[i]) ELSE 0])

\* the error _create_raf_pick_entries raises, if any
create_raf_pick_entries_check(p) ==
  IF search_general_journal(p.company_id) = NoJournal
  THEN Err("UserError", "Please define a General Journal for this company")
  ELSE IF wip_account(p) = NoAccount
       THEN Err("UserError", "Please define a WIP Account for category")
       ELSE IF \E i \in 1 .. Len(p.move_raw_ids) :
                 /\ costed(p.move_raw_ids[i])
                 /\ raw_material_account(p.move_raw_ids[i]) = NoAccount
            THEN Err("UserError", "Please define a Raw Material Account for category")
            ELSE IF az_property_raf_account_id(p.categ_id) = NoAccount
                 THEN Err("UserError", "Please define a RAF Account for category")
                 ELSE Ok

\* variant: the finished value is debited to RAF and not credited to WIP
raf_pick_lines_without_wip_credit(p) ==
  LET credits == raw_material_credits(p.move_raw_ids)
      raw_cost == total_raw_material_cost(p.move_raw_ids)
      finished_cost == total_finished_cost(p.move_finished_ids)
  IN [i \in 1 .. Len(credits) |->
        Line(credits[i].account_id, "no_partner", 0, credits[i].amount)]
     \o (IF raw_cost > 0
         THEN << Line(wip_account(p), "no_partner", raw_cost, 0) >> ELSE <<>>)
     \o (IF finished_cost > 0
         THEN << Line(az_property_raf_account_id(p.categ_id), "no_partner", finished_cost, 0) >>
         ELSE <<>>)

\* move_lines of _create_raf_pick_entries
raf_pick_lines(p) ==
  LET credits == raw_material_credits(p.move_raw_ids)
      raw_cost == total_raw_material_cost(p.move_raw_ids)
      finished_cost == total_finished_cost(p.move_finished_ids)
  IN [i \in 1 .. Len(credits) |->
        Line(credits[i].account_id, "no_partner", 0, credits[i].amount)]
     \o (IF raw_cost > 0
         THEN << Line(wip_account(p), "no_partner", raw_cost, 0) >> ELSE <<>>)
     \o (IF finished_cost > 0
         THEN << Line(az_property_raf_account_id(p.categ_id), "no_partner", finished_cost, 0),
                 Line(wip_account(p), "no_partner", 0, finished_cost) >>
         ELSE <<>>)

\* button_mark_done: the order is done; with the company's flag set the RAF /
\* pick entry is created (not posted) and linked to the order
button_mark_done ==
  /\ production.exists /\ production.state # "done"
  /\ UNCHANGED <<record, proc, wizard, report>>
  /\ IF ~production.az_calculate_raf_pick_account_automate
     THEN /\ production' = [production EXCEPT !.state = "done"]
          /\ UNCHANGED moves
          /\ Return("button_mark_done")
     ELSE IF create_raf_pick_entries_check(production) # Ok
          THEN /\ last' = [op |-> "button_mark_done",
                           res |-> create_raf_pick_entries_check(production).res,
                           msg |-> create_raf_pick_entries_check(production).msg]
               /\ UNCHANGED <<moves, production>>
          ELSE IF raf_pick_lines(production) = <<>>
               THEN /\ production' = [production EXCEPT !.state = "done"]
                    /\ UNCHANGED moves
                    /\ Return("button_mark_done")
               ELSE /\ Len(moves) < MaxMoves
                    /\ moves' = Append(moves, Move(search_general_journal(production.company_id),
                                                   "MO", raf_pick_lines(production),
                                                   "no_partner"))
                    /\ production' = [production EXCEPT
                                        !.state = "done",
                                        !.az_account_move_ids = @ \cup {Len(moves) + 1}]
                    /\ Return("button_mark_done")

\* res.config.settings: the company's flag is switched
set_az_calculate_raf_pick_account_automate(flag) ==
  /\ production.exists
  /\ UNCHANGED <<record, proc, wizard, moves, report>>
  /\ production' = [production EXCEPT !.az_calculate_raf_pick_account_automate = flag]
  /\ Return("write")

(* ---------------------------------------------------------------------- *)
(* Specification SpecMarkDone: one manufacturing order, with its raw and   *)
(* finished moves, is marked done                                          *)
(* ---------------------------------------------------------------------- *)
LayerValues == {-1, 0}
Prices == {0, 1}
MoveStates == {"done", "cancel"}
FinishedCategories == {"categ_full", "categ_bare", "categ_empty"}
RawCategories == {"categ_full", "categ_bare"}

RawMoves ==
  {RawMove(state, layer_value, standard_price, categ) :
     state \in MoveStates, layer_value \in LayerValues, standard_price \in Prices,
     categ \in RawCategories}
FinishedMoves ==
  {FinishedMove(state, same_product, layer_value, standard_price) :
     state \in MoveStates, same_product \in BOOLEAN, layer_value \in Prices,
     standard_price \in Prices}

InitMarkDone ==
  /\ \E categ \in FinishedCategories, company \in Companies, flag \in BOOLEAN,
        raw_moves \in {<<>>} \cup {<<a>> : a \in RawMoves}
                      \cup {<<a, b>> : a \in RawMoves, b \in RawMoves},
        finished_moves \in {<<>>} \cup {<<a>> : a \in FinishedMoves} :
       production = [exists |-> TRUE, state |-> "progress", categ_id |-> categ,
                     company_id |-> company,
                     az_calculate_raf_pick_account_automate |-> flag,
                     move_raw_ids |-> raw_moves, move_finished_ids |-> finished_moves,
                     az_account_move_ids |-> {}]
  /\ record = NewRecord("vendor", "p_full", 1, NoJournal, "c_gen")
  /\ wizard = NoWizard
  /\ moves = <<>>
  /\ last = [op |-> "create", res |-> "ok", msg |-> ""]
  /\ proc = [p \in Procs |-> Idle]
  /\ report = NoReport

NextMarkDone ==
  \/ button_mark_done
  \/ \E flag \in BOOLEAN : set_az_calculate_raf_pick_account_automate(flag)

SpecMarkDone == InitMarkDone /\ [][NextMarkDone]_vars

(* ---------------------------------------------------------------------- *)
(* Trial balance: swa.trial.balance.wizard and swa.trial.balance.line.     *)
(* Amounts are in tenths of the currency's unit.                           *)
(* ---------------------------------------------------------------------- *)
WizardIds == {1, 2, 3}
\* accounts in the order of their ids
ReportAccounts == <<"acc_a", "acc_b">>

\* an account.move.line, as far as the report reads it
LedgerLine(account, company, date, parent_state, debit, credit) ==
  [account_id |-> account, company_id |-> company, date |-> date,
   parent_state |-> parent_state, debit |-> debit, credit |-> credit]

\* the domain action_generate searches the ledger with
matches(w, line) ==
  /\ line.company_id = w.company_id
  /\ line.date >= w.date_from
  /\ line.date <= w.date_to
  /\ w.target_move = "posted" => line.parent_state = "posted"

\* the matching ledger lines of one account
move_lines(w, ledger, account) ==
  SelectSeq(ledger, LAMBDA line : matches(w, line) /\ line.account_id = account)

\* the amounts that change a float total accumulated with +=
addends(amounts) == SelectSeq(amounts, LAMBDA amount : amount # 0)

\* account_data[acc_id]: the totals accumulated over the matching lines
account_data(w, ledger, account) ==
  LET lines == move_lines(w, ledger, account)
  IN [account_id |-> account,
      debit |-> sum([i \in 1 .. Len(lines) |-> lines[i].debit]),
      credit |-> sum([i \in 1 .. Len(lines) |-> lines[i].credit]),
      debits |-> addends([i \in 1 .. Len(lines) |-> lines[i].debit]),
      credits |-> addends([i \in 1 .. Len(lines) |-> lines[i].credit])]

\* the sums 0.0 + a + b of two amounts up to 0.4 whose float is not the float
\* of the total: 0.1 + 0.2 is 0.30000000000000004, 0.2 + 0.4 is
\* 0.6000000000000001
InexactSums == {<<1, 2>>, <<2, 1>>, <<2, 4>>, <<4, 2>>}

\* the outcomes of `balance == 0`, balance being the difference of the two
\* float totals: totals that differ in the currency's units differ as
\* floats; equal totals of at most two amounts each are equal as floats when
\* both are exact or both are not; longer sums can go either way
balance_is_zero(data) ==
  IF data.debit # data.credit THEN {FALSE}
  ELSE IF Len(data.debits) <= 2 /\ Len(data.credits) <= 2
       THEN {(data.debits \in InexactSums) = (data.credits \in InexactSums)}
       ELSE BOOLEAN

\* whether the account's line is left out; zero is the outcome of balance == 0
skipped(w, data, zero) ==
  \/ w.show_accounts = "movement" /\ data.debit = 0 /\ data.credit = 0
  \/ w.show_accounts = "not_zero" /\ zero

\* a swa.trial.balance.line; the stored amounts are in the currency's units
TrialBalanceLine(wizard_id, uid, data) ==
  [wizard_id |-> wizard_id, create_uid |-> uid, account_id |-> data.account_id,
   debit |-> data.debit, credit |-> data.credit, balance |-> data.debit - data.credit]

\* lines_to_create, sorted by account
RECURSIVE lines_to_create(_, _, _, _, _)
lines_to_create(wizard_id, w, ledger, zero, accounts) ==
  IF accounts = <<>> THEN <<>>
  ELSE LET account == Head(accounts)
           data == account_data(w, ledger, account)
       IN (IF move_lines(w, ledger, account) = <<>> \/ skipped(w, data, zero[account])
           THEN <<>> ELSE << TrialBalanceLine(wizard_id, w.create_uid, data) >>)
          \o lines_to_create(wizard_id, w, ledger, zero, Tail(accounts))

\* variant: the lines of the wizard itself are deleted
lines_after_unlink_of_wizard(lines, wizard_id, uid) ==
  SelectSeq(lines, LAMBDA line : line.wizard_id # wizard_id)

\* search([('create_uid', '=', uid)]).unlink(): the lines that are left
lines_after_unlink(lines, wizard_id, uid) ==
  SelectSeq(lines, LAMBDA line : line.create_uid # uid)

action_generate(wizard_id) ==
  /\ report.exists
  /\ UNCHANGED <<record, moves, proc, wizard, production>>
  /\ LET w == report.wizards[wizard_id]
         accounts == {ReportAccounts[i] : i \in 1 .. Len(ReportAccounts)}
     IN \E zero \in [accounts -> BOOLEAN] :
          /\ \A account \in accounts :
               zero[account] \in balance_is_zero(account_data(w, report.ledger, account))
          /\ report' = [report EXCEPT !.line_ids =
                          lines_after_unlink(@, wizard_id, w.create_uid)
                          \o lines_to_create(wizard_id, w, report.ledger, zero, ReportAccounts)]
  /\ Return("action_generate")

(* ---------------------------------------------------------------------- *)
(* Specification SpecTrialBalance: a ledger of two debits and a credit,     *)
(* two wizards of one user and one wizard of another, generated in any     *)
(* order                                                                   *)
(* ---------------------------------------------------------------------- *)
ReportFrom == 1
ReportTo == 1
\* lines inside the filter, debits and credits on either account, and one
\* line outside the filter for each of its conditions
DebitLines ==
  {LedgerLine(account, "c_gen", ReportFrom, "posted", debit, 0) :
     account \in {"acc_a", "acc_b"}, debit \in 0 .. MaxLedgerAmount}
CreditLines ==
  {LedgerLine(account, "c_gen", ReportTo, "posted", 0, credit) :
     account \in {"acc_a", "acc_b"}, credit \in 1 .. MaxLedgerAmount}
OutsideLines ==
  {LedgerLine("acc_a", "c_nogen", ReportFrom, "posted", 1, 0),
   LedgerLine("acc_a", "c_gen", ReportFrom - 1, "posted", 1, 0),
   LedgerLine("acc_a", "c_gen", ReportTo + 1, "posted", 1, 0),
   LedgerLine("acc_a", "c_gen", ReportFrom, "draft", 1, 0)}

TrialBalanceWizard(uid, target_move, show_accounts) ==
  [create_uid |-> uid, company_id |-> "c_gen", date_from |-> ReportFrom,
   date_to |-> ReportTo, target_move |-> target_move, show_accounts |-> show_accounts]

InitTrialBalance ==
  /\ \E l1 \in DebitLines \cup OutsideLines, l2 \in DebitLines, l3 \in CreditLines,
        target_move \in {"posted", "all"},
        show_accounts \in {"all", "movement", "not_zero"} :
       report = [exists |-> TRUE,
                 ledger |-> <<l1, l2, l3>>,
                 wizards |-> [id \in WizardIds |->
                                TrialBalanceWizard(IF id = 3 THEN "u_2" ELSE "u_1",
                                                   target_move, show_accounts)],
                 line_ids |-> <<>>]
  /\ record = NewRecord("vendor", "p_full", 1, NoJournal, "c_gen")
  /\ moves = <<>>
  /\ last = [op |-> "create", res |-> "ok", msg |-> ""]
  /\ proc = [p \in Procs |-> Idle]
  /\ wizard = NoWizard
  /\ production = NoProduction

NextTrialBalance == \E wizard_id \in WizardIds : action_generate(wizard_id)

SpecTrialBalance == InitTrialBalance /\ [][NextTrialBalance]_vars

(* ====================================================================== *)
(* Properties                                                              *)
(* ====================================================================== *)
ValidationErrors == {"UserError", "ValidationError"}
Links(r) == <<r.account_move_id, r.clearing_move_id, r.reverse_move_id,
              r.reverse_clearing_move_id>>
LinkSet(r) == {r.account_move_id, r.clearing_move_id, r.reverse_move_id,
               r.reverse_clearing_move_id}
NewMove == Len(moves) + 1
\* exactly one entry was created by the step, the others are as they were
CreatedOne == /\ Len(moves') = Len(moves) + 1
              /\ SubSeq(moves', 1, Len(moves)) = moves
PostedMoves == {id \in 1 .. Len(moves) : is_posted(moves, id)}

\* C1: reset-to-draft succeeds only when the state is confirmed; in every
\* other state it raises a validation error and leaves the state unchanged.
C1_ResetOnlyFromConfirmed ==
  [][action_draft =>
       /\ (last'.res = "ok" => record.state = "confirmed")
       /\ (record.state # "confirmed" =>
             last'.res \in ValidationErrors /\ record'.state = record.state)]_vars

\* C2: reset-to-draft never succeeds while the primary or the clearing entry
\* is posted; when it succeeds the linked entries are unlinked, both links are
\* null and the state is draft; no posted entry is ever left without a link
\* from the instrument.
C2_ResetNeverOrphansPosted ==
  /\ [][action_draft /\ last'.res = "ok" =>
          /\ ~is_posted(moves, record.account_move_id)
          /\ ~is_posted(moves, record.clearing_move_id)
          /\ \A id \in {record.account_move_id, record.clearing_move_id} \ {NoMove} :
               ~moves'[id].exists
          /\ record'.account_move_id = NoMove
          /\ record'.clearing_move_id = NoMove
          /\ record'.state = "draft"]_vars
  /\ [](PostedMoves \subseteq LinkSet(record))

\* C3: cancelled is absorbing: no step changes the state of a cancelled
\* instrument.
C3_CancelledAbsorbing ==
  [][record.state = "cancelled" => record'.state = "cancelled"]_vars

\* C4: cancel succeeds only in draft or confirmed, and in confirmed only if
\* the primary entry is not posted; in every other state it raises a
\* validation error and the state is unchanged.
C4_CancelOnlyFromDraftOrConfirmed ==
  [][action_cancel =>
       /\ (last'.res = "ok" =>
             /\ record.state \in {"draft", "confirmed"}
             /\ ~is_posted(moves, record.account_move_id)
             /\ record'.state = "cancelled")
       /\ (record.state \notin {"draft", "confirmed"} =>
             last'.res \in ValidationErrors /\ record'.state = record.state)]_vars

\* C5: in the posting handlers the instrument's state and link are updated
\* only after the new entry is posted, and when posting fails the state and
\* the four links are as they were before the action.
C5_PostThenCommit ==
  \A p \in Procs :
    /\ (proc[p].move # NoMove /\ proc[p].move \in LinkSet(record)
          => is_posted(moves, proc[p].move))
    /\ (proc[p].at = "raised"
          => /\ record.state = proc[p].saved.state
             /\ Links(record) = Links(proc[p].saved))

\* C6: under any interleaving of two confirm (or two clear) requests on the
\* same instrument at most one primary (clearing) entry is created and posted.
C6_NoDoublePosting ==
  /\ Cardinality({id \in PostedMoves : moves[id].ref = "name"}) <= 1
  /\ Cardinality({id \in PostedMoves : moves[id].ref = "Clearing"}) <= 1

\* C7: confirm succeeds only from draft with a giro account set; on success
\* the state is confirmed and the primary link points to the one newly
\* created entry, posted, with two lines: debit amount on the giro account,
\* credit amount on the partner's payable (vendor) or receivable (customer)
\* account.
C7_ConfirmPostsPrimary ==
  [][action_confirm /\ last'.res = "ok" =>
       /\ record.state = "draft"
       /\ record.giro_account_id # NoAccount
       /\ record'.state = "confirmed"
       /\ CreatedOne
       /\ record'.account_move_id = NewMove
       /\ moves'[NewMove].exists /\ moves'[NewMove].state = "posted"
       /\ Len(moves'[NewMove].line_ids) = 2
       /\ moves'[NewMove].line_ids[1].account_id = record.giro_account_id
       /\ moves'[NewMove].line_ids[1].debit = record.amount
       /\ moves'[NewMove].line_ids[1].credit = 0
       /\ moves'[NewMove].line_ids[2].account_id =
            (IF record.partner_type = "vendor" THEN "acc_payable" ELSE "acc_receivable")
       /\ moves'[NewMove].line_ids[2].debit = 0
       /\ moves'[NewMove].line_ids[2].credit = record.amount]_vars

C7_Witness ==
  /\ last = [op |-> "action_confirm", res |-> "ok", msg |-> ""]
  /\ record.state = "confirmed"
  /\ record.partner_type = "vendor"
  /\ record.amount = 1
  /\ is_posted(moves, record.account_move_id)

\* C8: clear succeeds only from confirmed, not yet cleared, with a bank
\* journal that has a bank account; on success the state is cleared and the
\* clearing link points to a posted entry that debits the bank account and
\* credits the giro account for the amount of the primary entry.
C8_ClearPostsClearing ==
  [][action_clearing /\ last'.res = "ok" =>
       /\ record.state = "confirmed"
       /\ ~record.is_cleared
       /\ record.journal_bank_id # NoJournal
       /\ default_account_id(record.journal_bank_id) # NoAccount
       /\ record'.state = "cleared"
       /\ CreatedOne
       /\ record'.clearing_move_id = NewMove
       /\ moves'[NewMove].exists /\ moves'[NewMove].state = "posted"
       /\ Len(moves'[NewMove].line_ids) = 2
       /\ moves'[NewMove].line_ids[1].account_id = "acc_bank"
       /\ moves'[NewMove].line_ids[1].credit = 0
       /\ moves'[NewMove].line_ids[2].account_id = record.giro_account_id
       /\ moves'[NewMove].line_ids[2].debit = 0
       /\ record.account_move_id # NoMove
       /\ moves[record.account_move_id].exists
       /\ moves'[NewMove].line_ids[1].debit = moves[record.account_move_id].line_ids[1].debit
       /\ moves'[NewMove].line_ids[2].credit = moves[record.account_move_id].line_ids[2].credit]_vars

C8_Witness ==
  /\ last = [op |-> "action_clearing", res |-> "ok", msg |-> ""]
  /\ record.state = "cleared"
  /\ record.amount = 1
  /\ is_posted(moves, record.clearing_move_id)
  /\ is_posted(moves, record.account_move_id)

\* C9: clear on an instrument that is not confirmed raises a validation
\* error, creates no ledger entry and leaves the state and links unchanged.
C9_ClearRejectedUnlessConfirmed ==
  [][action_clearing /\ record.state # "confirmed" =>
       /\ last'.res \in ValidationErrors
       /\ moves' = moves
       /\ record'.state = record.state
       /\ Links(record') = Links(record)]_vars

C9_Witness ==
  /\ last.op = "action_clearing"
  /\ last.res = "UserError"
  /\ last.msg = "Only confirmed giro can be cleared."
  /\ record.state = "draft"
  /\ record.journal_bank_id = "j_bank"
  /\ moves = <<>>

\* C10: reverse-primary succeeds only from confirmed, cleared or
\* clearing_reversed, with the primary entry posted and the instrument not yet
\* reversed; on success it posts a new entry whose lines are the primary
\* entry's with debit and credit swapped (same account and partner), the state
\* is reversed and is_reversed is true.
C10_ReversePrimarySwaps ==
  [][action_reverse_giro /\ last'.res = "ok" =>
       /\ record.state \in {"confirmed", "cleared", "clearing_reversed"}
       /\ is_posted(moves, record.account_move_id)
       /\ ~record.is_reversed
       /\ CreatedOne
       /\ record'.reverse_move_id = NewMove
       /\ moves'[NewMove].exists /\ moves'[NewMove].state = "posted"
       /\ LET old == moves[record.account_move_id].line_ids
              new == moves'[NewMove].line_ids
          IN  /\ Len(new) = Len(old)
              /\ \A i \in 1 .. Len(old) :
                   /\ new[i].account_id = old[i].account_id
                   /\ new[i].partner_id = old[i].partner_id
                   /\ new[i].debit = old[i].credit
                   /\ new[i].credit = old[i].debit
       /\ record'.state = "reversed"
       /\ record'.is_reversed]_vars

C10_Witness ==
  /\ last = [op |-> "action_reverse_giro", res |-> "ok", msg |-> ""]
  /\ record.state = "reversed"
  /\ record.is_reversed
  /\ record.amount = 1
  /\ is_posted(moves, record.reverse_move_id)
  /\ moves[record.reverse_move_id].line_ids[1].credit = 1

\* C11: reverse-clearing succeeds only from cleared or reversed, with the
\* clearing entry linked and posted and the clearing not yet reversed; on
\* success it posts an entry with the clearing entry's debits and credits
\* swapped and the state is clearing_reversed; it fails on a reversed
\* instrument that was never cleared.
C11_ReverseClearingSwaps ==
  [][action_reverse_clearing =>
       /\ (last'.res = "ok" =>
             /\ record.state \in {"cleared", "reversed"}
             /\ is_posted(moves, record.clearing_move_id)
             /\ ~record.is_clearing_reversed
             /\ record.reverse_clearing_move_id = NoMove
             /\ CreatedOne
             /\ record'.reverse_clearing_move_id = NewMove
             /\ moves'[NewMove].exists /\ moves'[NewMove].state = "posted"
             /\ LET old == moves[record.clearing_move_id].line_ids
                    new == moves'[NewMove].line_ids
                IN  /\ Len(new) = Len(old)
                    /\ \A i \in 1 .. Len(old) :
                         /\ new[i].account_id = old[i].account_id
                         /\ new[i].debit = old[i].credit
                         /\ new[i].credit = old[i].debit
             /\ record'.state = "clearing_reversed")
       /\ (record.state = "reversed" /\ record.clearing_move_id = NoMove =>
             last'.res \in ValidationErrors /\ moves' = moves /\ record' = record)]_vars

C11_Witness ==
  /\ last = [op |-> "action_reverse_clearing", res |-> "ok", msg |-> ""]
  /\ record.state = "clearing_reversed"
  /\ record.amount = 1
  /\ is_posted(moves, record.reverse_clearing_move_id)
  /\ moves[record.reverse_clearing_move_id].line_ids[1].account_id = "acc_bank"
  /\ moves[record.reverse_clearing_move_id].line_ids[1].credit = 1

\* C12: in every reachable state the instrument is in exactly one of the six
\* states, and is_cleared, is_reversed, is_clearing_reversed hold iff the
\* clearing, reverse-primary, reverse-clearing link is non-null.
C12_StateAndFlags ==
  /\ record.state \in States
  /\ record.is_cleared <=> record.clearing_move_id # NoMove
  /\ record.is_reversed <=> record.reverse_move_id # NoMove
  /\ record.is_clearing_reversed <=> record.reverse_clearing_move_id # NoMove

C12_Witness ==
  /\ record.state = "clearing_reversed"
  /\ record.is_cleared /\ record.is_reversed /\ record.is_clearing_reversed
  /\ record.clearing_move_id # NoMove
  /\ record.reverse_move_id # NoMove
  /\ record.reverse_clearing_move_id # NoMove

\* C13 (as claimed): the instrument can be deleted only in state draft and
\* not cleared; deletion in any other state is rejected.
C13_DeleteOnlyDraft ==
  [][unlink =>
       /\ (last'.res = "ok" => record.state = "draft" /\ ~record.is_cleared)
       /\ (record.state # "draft" => last'.res \in ValidationErrors /\ record'.exists)]_vars

\* C13 (amended): the instrument can be deleted only when its state is not
\* confirmed and it has no clearing link; it can be deleted in draft, in
\* cancelled and in reversed without a clearing.
C13_DeleteUnlessConfirmedOrCleared ==
  [][unlink /\ last'.res = "ok" =>
       /\ record.state # "confirmed"
       /\ record.clearing_move_id = NoMove
       /\ ~record'.exists]_vars

C13_Witness ==
  /\ last = [op |-> "unlink", res |-> "ok", msg |-> ""]
  /\ ~record.exists
  /\ record.state = "cancelled"

\* C14: deleting the instrument raises a validation error and keeps the
\* instrument whenever its state is confirmed or it is cleared.
C14_DeleteBlocked ==
  [][unlink /\ (record.state = "confirmed" \/ record.is_cleared) =>
       /\ last'.res \in ValidationErrors
       /\ record' = record
       /\ record'.exists]_vars

C14_Witness ==
  /\ last.op = "unlink"
  /\ last.res = "UserError"
  /\ record.exists
  /\ record.state = "cleared"
  /\ record.is_cleared

\* C15: confirm, clear, reverse-primary or reverse-clearing called again
\* directly after it succeeded raises a validation error and creates no
\* ledger entry.
C15_SecondCallRejected ==
  [][/\ (last = [op |-> "action_confirm", res |-> "ok", msg |-> ""] /\ action_confirm
           => last'.res \in ValidationErrors /\ moves' = moves /\ record' = record)
     /\ (last = [op |-> "action_clearing", res |-> "ok", msg |-> ""] /\ action_clearing
           => last'.res \in ValidationErrors /\ moves' = moves /\ record' = record)
     /\ (last = [op |-> "action_reverse_giro", res |-> "ok", msg |-> ""] /\ action_reverse_giro
           => last'.res \in ValidationErrors /\ moves' = moves /\ record' = record)
     /\ (last = [op |-> "action_reverse_clearing", res |-> "ok", msg |-> ""]
           /\ action_reverse_clearing
           => last'.res \in ValidationErrors /\ moves' = moves /\ record' = record)]_vars

C15_Witness ==
  /\ last = [op |-> "action_confirm", res |-> "UserError",
             msg |-> "Only draft giro can be confirmed."]
  /\ record.state = "confirmed"
  /\ Len(moves) = 1
  /\ is_posted(moves, record.account_move_id)

\* C16: every instrument has amount > 0; no instrument with a zero or
\* negative amount is confirmed into a posted primary entry.
C16_AmountPositive ==
  [][action_confirm /\ last'.res = "ok" =>
       /\ record.amount > 0
       /\ moves'[NewMove].line_ids[1].debit > 0]_vars

\* C17: reversing the reversal of an entry gives back, line by line, the
\* original debit and credit on the same account and partner.
C17_DoubleReversalIdentity ==
  \A i \in 1 .. Len(moves) :
    i + 2 <= Len(moves) =>
      /\ Len(moves[i + 2].line_ids) = Len(moves[i].line_ids)
      /\ \A k \in 1 .. Len(moves[i].line_ids) :
           /\ moves[i + 2].line_ids[k].account_id = moves[i].line_ids[k].account_id
           /\ moves[i + 2].line_ids[k].partner_id = moves[i].line_ids[k].partner_id
           /\ moves[i + 2].line_ids[k].debit = moves[i].line_ids[k].debit
           /\ moves[i + 2].line_ids[k].credit = moves[i].line_ids[k].credit

C17_Witness ==
  /\ Len(moves) >= 3
  /\ moves[1].line_ids[1].debit = 1 /\ moves[1].line_ids[1].credit = 0
  /\ moves[1].line_ids[1].partner_id = "p_full"
  /\ moves[2].line_ids[1].debit = 0 /\ moves[2].line_ids[1].credit = 1
  /\ moves[3].line_ids[1] = moves[1].line_ids[1]

\* the posted entries of the wizard: the ledger entries that carry its
\* reference
PostedWipEntries ==
  {id \in 1 .. Len(moves) : is_posted(moves, id) /\ moves[id].ref = wizard.reference}

\* C18: WIP post creates and posts an entry only for a wizard in state draft,
\* so whatever sequence of post-wip and post-and-reverse-wip is invoked, one
\* wizard has at most one posted WIP entry.
C18_OnePostedWipEntry == Cardinality(PostedWipEntries) <= 1

\* how far the wizard's total debit and total credit are apart
Imbalance ==
  IF total_debit(wizard.line_ids) >= total_credit(wizard.line_ids)
  THEN total_debit(wizard.line_ids) - total_credit(wizard.line_ids)
  ELSE total_credit(wizard.line_ids) - total_debit(wizard.line_ids)

\* C19: WIP post on a wizard without lines, or whose total debit and total
\* credit differ by 0.01 or more, raises an error, creates no ledger entry and
\* leaves the wizard as it was: a draft wizard stays draft without entry link.
C19_PostRefused ==
  [][wip_action_post /\ (wizard.line_ids = <<>> \/ Imbalance >= BalanceTolerance) =>
       /\ last'.res = "UserError"
       /\ moves' = moves
       /\ wizard' = wizard
       /\ (wizard.state = "draft" =>
             wizard'.state = "draft" /\ wizard'.move_id = NoMove)]_vars

C19_Witness ==
  /\ last.op = "action_post"
  /\ last.res = "UserError"
  /\ last.msg = "The journal entry is not balanced."
  /\ wizard.line_ids # <<>>
  /\ Imbalance = 2
  /\ wizard.state = "draft"
  /\ wizard.move_id = NoMove
  /\ moves = <<>>

\* C20: for a non-empty selection of orders with component value c > 0 and
\* overhead value o > 0 the computed lines are exactly three: credit c on the
\* stock valuation account, credit o on the overhead account, debit c + o on
\* the WIP account; total debit equals total credit.
C20_ThreeLines ==
  LET c == calculate_component_value(wizard.mo_ids, wizard.date)
      o == calculate_overhead_value(wizard.mo_ids, wizard.date)
      accounts == get_accounts_from_category(wizard.mo_ids, wizard.company_id)
  IN (wizard.mo_ids # <<>> /\ c > 0 /\ o > 0) =>
       /\ Len(wizard.line_ids) = 3
       /\ wizard.line_ids[1].line_type = "component"
       /\ wizard.line_ids[1].debit = 0 /\ wizard.line_ids[1].credit = c
       /\ wizard.line_ids[1].account_id = accounts.stock_valuation
       /\ wizard.line_ids[2].line_type = "overhead"
       /\ wizard.line_ids[2].debit = 0 /\ wizard.line_ids[2].credit = o
       /\ wizard.line_ids[2].account_id = accounts.overhead
       /\ wizard.line_ids[3].line_type = "wip"
       /\ wizard.line_ids[3].debit = c + o /\ wizard.line_ids[3].credit = 0
       /\ wizard.line_ids[3].account_id = accounts.wip
       /\ total_debit(wizard.line_ids) = total_credit(wizard.line_ids)

C20_Witness ==
  /\ last.op = "write" /\ last.res = "ok"
  /\ wizard.mo_ids = << Production("categ_bare", 1, 1) >>
  /\ Len(wizard.line_ids) = 3
  /\ wizard.line_ids[3].debit = 2
  /\ wizard.line_ids[3].account_id = "acc_wip_company"

\* the lines of the wizard of a given type
LinesOfType(lines, line_type) ==
  {i \in 1 .. Len(lines) : lines[i].line_type = line_type}

\* the three accounts a WIP entry needs are all resolved
AccountsResolved(productions, company) ==
  LET accounts == get_accounts_from_category(productions, company)
  IN /\ accounts.stock_valuation # NoAccount
     /\ accounts.wip # NoAccount
     /\ accounts.overhead # NoAccount

\* C21: for every pair of component and overhead values the computation
\* yields at most three lines, the component credit only if the component
\* value is > 0, the overhead credit only if the overhead value is > 0, the WIP
\* debit only if their sum is > 0; the lines are balanced and none carries a
\* zero or negative amount.
C21_OnlyPositiveLines ==
  [][\A productions \in Productions :
       (/\ write_mo_ids(productions)
        /\ productions # <<>>
        /\ AccountsResolved(productions, wizard.company_id)) =>
         LET c == calculate_component_value(productions, wizard.date)
             o == calculate_overhead_value(productions, wizard.date)
             lines == wizard'.line_ids
         IN /\ last'.res = "ok"
            /\ Len(lines) <= 3
            /\ Cardinality(LinesOfType(lines, "component")) = (IF c > 0 THEN 1 ELSE 0)
            /\ Cardinality(LinesOfType(lines, "overhead")) = (IF o > 0 THEN 1 ELSE 0)
            /\ Cardinality(LinesOfType(lines, "wip")) = (IF c + o > 0 THEN 1 ELSE 0)
            /\ \A i \in 1 .. Len(lines) :
                 /\ lines[i].debit >= 0 /\ lines[i].credit >= 0
                 /\ lines[i].debit + lines[i].credit > 0
            /\ total_debit(lines) = total_credit(lines)]_vars

\* C22: computing the lines of a non-empty selection for which the stock
\* valuation, WIP or overhead account is missing fails with the configuration
\* error of the account validation and builds no line, also when the first
\* order has no product or category and the fallback accounts are used.
C22_MissingAccountRefused ==
  [][\A productions \in Productions :
       (/\ write_mo_ids(productions)
        /\ productions # <<>>
        /\ ~AccountsResolved(productions, wizard.company_id)) =>
         /\ last'.res = "UserError"
         /\ last'.msg = "The following accounts are not configured for Product Category"
         /\ wizard'.line_ids = wizard.line_ids]_vars

C24_WipResolvedEverywhere ==
  [][(/\ button_mark_done
      /\ production.az_calculate_raf_pick_account_automate
      /\ search_general_journal(production.company_id) # NoJournal
      /\ resolve_wip_account(production.categ_id, production.company_id) # NoAccount) =>
        /\ last'.msg # "Please define a WIP Account for category"
        /\ (Len(moves') > Len(moves) =>
              \E i \in 1 .. Len(moves'[NewMove].line_ids) :
                moves'[NewMove].line_ids[i].account_id
                  = resolve_wip_account(production.categ_id, production.company_id))]_vars

\* C25: the overhead account found for a batch goes by the first order's
\* category and the company: the category's overhead override (no category
\* carries one), then the company's default WIP-overhead account, then the
\* category's production-cost account, then its stock-input account; the
\* first that is set is returned, and when none is set no account is found.
C25_OverheadChain ==
  [][\A productions \in Productions :
       call_get_overhead_account(productions) /\ productions # <<>> =>
         LET categ == productions[1].categ_id
             company == wizard.company_id
             expected ==
               IF account_production_wip_overhead_account_id(company) # NoAccount
               THEN account_production_wip_overhead_account_id(company)
               ELSE IF property_stock_account_production_cost_id(categ) # NoAccount
                    THEN property_stock_account_production_cost_id(categ)
                    ELSE property_stock_account_input_categ_id(categ)
         IN /\ expected = resolve_overhead_account(categ, company)
            /\ IF expected = NoAccount
               THEN last'.res # "ok"
               ELSE last'.res = "ok" /\ last'.msg = expected]_vars

\* C26: wherever a raw-material account is resolved it is the category's
\* raw-material account when set, else the category's stock valuation account
\* when set, else none; so marking an order done never fails for a missing
\* raw-material account while every consumed component's category has a stock
\* valuation account.
C26_RawMaterialResolvedEverywhere ==
  [][(/\ button_mark_done
      /\ production.az_calculate_raf_pick_account_automate
      /\ search_general_journal(production.company_id) # NoJournal
      /\ wip_account(production) # NoAccount
      /\ \A i \in 1 .. Len(production.move_raw_ids) :
           resolve_raw_material_account(production.move_raw_ids[i].categ_id) # NoAccount) =>
        last'.msg # "Please define a Raw Material Account for category"]_vars

\* C27: every line of every entry created in the ledger carries an amount on
\* exactly one side: debit > 0 or credit > 0, never both, never neither, and
\* never a negative amount.
C27_DebitXorCredit ==
  \A id \in 1 .. Len(moves) :
    \A i \in 1 .. Len(moves[id].line_ids) :
      LET line == moves[id].line_ids[i]
      IN /\ line.debit >= 0 /\ line.credit >= 0
         /\ (line.debit > 0) # (line.credit > 0)

\* C28: whenever the selected orders or the date of the wizard change, or the
\* lines are refreshed, the wizard's lines are afterwards exactly the freshly
\* computed lines: no edited or added line survives, and with no order
\* selected there is no line.
C28_LinesReplaced ==
  [][(\/ wizard'.mo_ids # wizard.mo_ids
      \/ wizard'.date # wizard.date
      \/ last'.op = "action_refresh_lines" /\ last'.res = "ok") =>
       /\ wizard'.line_ids =
            compute_line_ids(wizard'.mo_ids, wizard'.date, wizard'.company_id)
       /\ wizard'.mo_ids = <<>> => wizard'.line_ids = <<>>]_vars

\* the date was moved to the day the order consumes its component, and the
\* lines, none before, are the computed component and WIP lines
C28_Witness ==
  /\ last.op = "write" /\ last.res = "ok"
  /\ wizard.mo_ids = << ProductionOf("categ_full", << MoveLine(TRUE, 1, MaxDate, FALSE, NoLot, 0, 1) >>, 0) >>
  /\ wizard.date = MaxDate
  /\ Len(wizard.line_ids) = 2
  /\ wizard.line_ids = compute_line_ids(wizard.mo_ids, wizard.date, wizard.company_id)

\* C29: the component value on the wizard's component line is the sum, over
\* the picked move lines not after the end of the wizard's day, of quantity
\* times unit price, the unit price being the lot's standard price whenever
\* the product is lot valuated and a lot is set, a lot price of zero
\* included, and the product's standard price otherwise.
C29_ComponentValue ==
  wizard.exists =>
    LET mls == move_line_ids(wizard.mo_ids)
        price(ml) == IF ml.lot_valuated /\ ml.lot_id # NoLot
                     THEN ml.lot_standard_price ELSE ml.standard_price
        value(ml) == IF ml.picked /\ ml.date <= wizard.date
                     THEN ml.quantity * price(ml) ELSE 0
        component == SelectSeq(wizard.line_ids, LAMBDA line : line.line_type = "component")
    IN sum([i \in 1 .. Len(component) |-> component[i].credit])
         = sum([i \in 1 .. Len(mls) |-> value(mls[i])])

\* C30: on a batch of several orders every line is booked on the account the
\* first order's category alone gives for its role, whatever the categories
\* of the other orders, and the amounts are the totals over all orders.
C30_FirstOrderAccounts ==
  wizard.exists /\ Len(wizard.mo_ids) > 1 =>
    LET accounts == get_accounts_from_category(<< wizard.mo_ids[1] >>, wizard.company_id)
        each(i) == << wizard.mo_ids[i] >>
        compo_value == sum([i \in 1 .. Len(wizard.mo_ids) |->
                              calculate_component_value(each(i), wizard.date)])
        overhead_value == sum([i \in 1 .. Len(wizard.mo_ids) |->
                                 calculate_overhead_value(each(i), wizard.date)])
    IN \A i \in 1 .. Len(wizard.line_ids) :
         LET line == wizard.line_ids[i]
         IN CASE line.line_type = "component" ->
                   line.account_id = accounts.stock_valuation /\ line.credit = compo_value
              [] line.line_type = "overhead" ->
                   line.account_id = accounts.overhead /\ line.credit = overhead_value
              [] line.line_type = "wip" ->
                   line.account_id = accounts.wip
                   /\ line.debit = compo_value + overhead_value
              [] OTHER -> FALSE

\* a batch whose first order's category has no WIP account of its own and
\* whose second order's category has one: WIP is booked on the company's
\* account, with the totals of both orders
C30_Witness ==
  /\ last.op = "write" /\ last.res = "ok"
  /\ wizard.exists /\ wizard.company_id = "c_gen"
  /\ wizard.mo_ids = << Production("categ_bare", 1, 1), Production("categ_full", 1, 1) >>
  /\ Len(wizard.line_ids) = 3
  /\ wizard.line_ids[3].line_type = "wip"
  /\ wizard.line_ids[3].account_id = "acc_wip_company"
  /\ wizard.line_ids[3].debit = 4
  /\ wizard.line_ids[1].credit = 2 /\ wizard.line_ids[2].credit = 2

\* C31: in every reachable state the instrument's state agrees with its
\* links: confirmed has the primary link, cleared the clearing link, reversed
\* the reverse-primary link, clearing_reversed the reverse-clearing link, and
\* draft has neither the primary nor the clearing link.
C31_StateAgreesWithLinks ==
  /\ record.state = "confirmed" => record.account_move_id # NoMove
  /\ record.state = "cleared" => record.clearing_move_id # NoMove
  /\ record.state = "reversed" => record.reverse_move_id # NoMove
  /\ record.state = "clearing_reversed" => record.reverse_clearing_move_id # NoMove
  /\ record.state = "draft" =>
       record.account_move_id = NoMove /\ record.clearing_move_id = NoMove

\* a confirmed instrument whose primary entry was set back to draft in the
\* ledger has been reset: it is in draft with no primary and no clearing link
C31_Witness ==
  /\ last.op = "action_draft" /\ last.res = "ok"
  /\ record.state = "draft"
  /\ Len(moves) = 1 /\ ~moves[1].exists
  /\ record.account_move_id = NoMove /\ record.clearing_move_id = NoMove

\* C32: an instrument in draft carries no trace of an earlier lifecycle: its
\* four links are null and is_cleared, is_reversed and is_clearing_reversed
\* are false.
C32_DraftIsClean ==
  record.exists /\ record.state = "draft" =>
    /\ Links(record) = <<NoMove, NoMove, NoMove, NoMove>>
    /\ ~record.is_cleared /\ ~record.is_reversed /\ ~record.is_clearing_reversed

\* C33: no step clears or replaces the reverse-primary link or the
\* reverse-clearing link once it is set, is_reversed and is_clearing_reversed
\* never go back from true to false, and the instrument never has more than
\* one reverse-primary entry and more than one reverse-clearing entry.
C33_ReverseLinksKept ==
  /\ [][/\ record.reverse_move_id # NoMove =>
             record'.reverse_move_id = record.reverse_move_id
        /\ record.reverse_clearing_move_id # NoMove =>
             record'.reverse_clearing_move_id = record.reverse_clearing_move_id
        /\ record.is_reversed => record'.is_reversed
        /\ record.is_clearing_reversed => record'.is_clearing_reversed]_vars
  /\ [](\A ref \in {"Reverse", "Reverse Clearing"} :
          Cardinality({id \in 1 .. Len(moves) : moves[id].exists /\ moves[id].ref = ref}) <= 1)

\* both reversals are done and a second reverse-primary has been refused
C33_Witness ==
  /\ last.op = "action_reverse_giro"
  /\ last.msg = "This giro has already been reversed."
  /\ record.reverse_move_id # NoMove /\ record.is_reversed
  /\ record.reverse_clearing_move_id # NoMove /\ record.is_clearing_reversed

GiroActions ==
  {"action_confirm", "action_draft", "action_cancel", "action_clearing",
   "action_reverse_giro", "action_reverse_clearing"}
BothPosted ==
  is_posted(moves, record.account_move_id) /\ is_posted(moves, record.clearing_move_id)

\* C34: on a cleared instrument with posted entries both reversals pass their
\* tests, and after either one the other still passes; once both are done
\* all four links are set and the three flags are true, whichever came
\* first; and from then on, while the primary and the clearing entry are
\* posted, every Giro action fails and leaves the instrument as it is.
C34_ReversalsInAnyOrder ==
  /\ [](record.exists /\ BothPosted =>
          /\ record.state = "cleared" /\ ~record.is_reversed /\ ~record.is_clearing_reversed =>
               /\ action_reverse_giro_check(record, moves) = Ok
               /\ action_reverse_clearing_check(record, moves) = Ok
          /\ record.state = "reversed" /\ ~record.is_clearing_reversed =>
               action_reverse_clearing_check(record, moves) = Ok
          /\ record.state = "clearing_reversed" /\ ~record.is_reversed =>
               action_reverse_giro_check(record, moves) = Ok
          /\ record.is_reversed /\ record.is_clearing_reversed =>
               /\ NoMove \notin LinkSet(record)
               /\ Cardinality(LinkSet(record)) = 4
               /\ record.is_cleared)
  /\ [][(/\ record.exists /\ BothPosted
         /\ record.is_reversed /\ record.is_clearing_reversed
         /\ last'.op \in GiroActions) =>
        last'.res \in ValidationErrors /\ record' = record /\ moves' = moves]_vars

\* the clearing was reversed first and the primary entry after it, and a
\* reset to draft has then been refused
C34_Witness ==
  /\ record.state = "reversed"
  /\ record.reverse_clearing_move_id = 3 /\ record.reverse_move_id = 4
  /\ record.is_cleared /\ record.is_reversed /\ record.is_clearing_reversed
  /\ BothPosted
  /\ last.op = "action_draft" /\ last.res = "UserError"

\* what the entry books on the instrument's giro account, debit less credit
GiroBalance(id) ==
  IF ~is_posted(moves, id) THEN 0
  ELSE sum([i \in 1 .. Len(moves[id].line_ids) |->
              IF moves[id].line_ids[i].account_id = record.giro_account_id
              THEN moves[id].line_ids[i].debit - moves[id].line_ids[i].credit ELSE 0])
NetOnGiroAccount == sum([i \in 1 .. 4 |-> GiroBalance(Links(record)[i])])

C36_ConfirmRefusedWithoutAccountOrJournal ==
  [][(/\ action_confirm
      /\ record.state = "draft"
      /\ \/ partner_account(record) = NoAccount
         \/ search_general_journal(record.company_id) = NoJournal) =>
        /\ last'.res = "ValidationError"
        /\ moves' = moves
        /\ record' = record
        /\ record'.state = "draft" /\ record'.account_move_id = NoMove]_vars

\* a confirm of an instrument of a company without general journal, its
\* partner having the account, has been refused
C36_Witness ==
  /\ last.op = "action_confirm" /\ last.res = "ValidationError"
  /\ partner_account(record) # NoAccount
  /\ search_general_journal(record.company_id) = NoJournal
  /\ record.state = "draft" /\ record.account_move_id = NoMove
  /\ moves = <<>>

\* C37: a cancel that succeeds changes the state field and nothing else: the
\* four links, the flags and every ledger entry are as they were.
C37_CancelChangesStateOnly ==
  [][action_cancel /\ last'.res = "ok" =>
       /\ record' = [record EXCEPT !.state = "cancelled"]
       /\ Links(record') = Links(record)
       /\ moves' = moves]_vars

\* a cancelled instrument that still links to its primary entry, a draft
C37_Witness ==
  /\ last.op = "action_cancel" /\ last.res = "ok"
  /\ record.state = "cancelled"
  /\ record.account_move_id # NoMove
  /\ moves[record.account_move_id].exists
  /\ moves[record.account_move_id].state = "draft"

\* total of one side of the lines of an entry that are on one of the accounts
SideTotal(entry, side, accounts) ==
  sum([i \in 1 .. Len(entry.line_ids) |->
         IF entry.line_ids[i].account_id \in accounts THEN entry.line_ids[i][side] ELSE 0])

\* C38: marking an order done creates an entry only with the company's flag
\* set; with the flag off no entry is created and the order's entry links are
\* as they were.  A created entry is balanced, the raw-material credits
\* equal to the WIP debit and the RAF debit equal to the WIP credit, it is
\* linked to the order and it is a draft.
C38_RafPickEntry ==
  [][button_mark_done =>
       /\ ~production.az_calculate_raf_pick_account_automate =>
            /\ moves' = moves
            /\ production'.az_account_move_ids = production.az_account_move_ids
       /\ moves' # moves =>
            /\ production.az_calculate_raf_pick_account_automate
            /\ CreatedOne
            /\ LET entry == moves'[Len(moves')]
                   wip == {wip_account(production)}
                   raf == {az_property_raf_account_id(production.categ_id)}
                   raw == {raw_material_account(production.move_raw_ids[i]) :
                             i \in 1 .. Len(production.move_raw_ids)}
               IN /\ entry.state = "draft"
                  /\ production'.az_account_move_ids =
                       production.az_account_move_ids \cup {Len(moves')}
                  /\ SideTotal(entry, "credit", raw) = SideTotal(entry, "debit", wip)
                  /\ SideTotal(entry, "debit", raf) = SideTotal(entry, "credit", wip)
                  /\ SideTotal(entry, "debit", wip \cup raf \cup raw)
                       = SideTotal(entry, "credit", wip \cup raf \cup raw)
                  /\ \A i \in 1 .. Len(entry.line_ids) :
                       entry.line_ids[i].account_id \in wip \cup raf \cup raw]_vars

\* an order with a consumed component and a finished product is done: its
\* draft entry has the raw-material credit, the WIP debit, the RAF debit and
\* the WIP credit
C38_Witness ==
  /\ last.op = "button_mark_done" /\ last.res = "ok"
  /\ production.state = "done"
  /\ production.az_account_move_ids = {1}
  /\ Len(moves) = 1 /\ moves[1].state = "draft"
  /\ Len(moves[1].line_ids) = 4

\* the trial balance lines of one wizard, of one user, of the other users
LinesOfWizard(lines, wizard_id) == SelectSeq(lines, LAMBDA line : line.wizard_id = wizard_id)
LinesOfUser(lines, uid) == SelectSeq(lines, LAMBDA line : line.create_uid = uid)
LinesOfOthers(lines, uid) == SelectSeq(lines, LAMBDA line : line.create_uid # uid)

\* C39: generate produces one line per account that has a ledger line
\* matching the company, the date range and the target-move filter, never two
\* for one account; the line's debit and credit are the sums over the
\* account's matching ledger lines and its balance is debit less credit; with
\* show_accounts = not_zero no produced line has balance 0, with
\* show_accounts = movement no produced line has both totals 0.
C39_OneLinePerAccount ==
  [][\A wizard_id \in WizardIds : action_generate(wizard_id) =>
       LET w == report.wizards[wizard_id]
           produced == LinesOfWizard(report'.line_ids, wizard_id)
           matching(account) == move_lines(w, report.ledger, account)
       IN /\ \A i, j \in 1 .. Len(produced) :
               produced[i].account_id = produced[j].account_id => i = j
          /\ \A i \in 1 .. Len(produced) :
               LET line == produced[i]
                   ledger == matching(line.account_id)
               IN /\ ledger # <<>>
                  /\ line.debit = sum([k \in 1 .. Len(ledger) |-> ledger[k].debit])
                  /\ line.credit = sum([k \in 1 .. Len(ledger) |-> ledger[k].credit])
                  /\ line.balance = line.debit - line.credit
                  /\ w.show_accounts = "not_zero" => line.balance # 0
                  /\ w.show_accounts = "movement" => ~(line.debit = 0 /\ line.credit = 0)
          /\ w.show_accounts = "all" =>
               \A k \in 1 .. Len(ReportAccounts) :
                 matching(ReportAccounts[k]) # <<>> =>
                   \E i \in 1 .. Len(produced) : produced[i].account_id = ReportAccounts[k]]_vars

\* C40: after a generate the lines of the wizard's user are the lines of that
\* wizard alone, one per account, whatever lines the user's other wizards had;
\* the lines of the other users are as they were.
C40_UserLinesReplaced ==
  [][\A wizard_id \in WizardIds : action_generate(wizard_id) =>
       LET uid == report.wizards[wizard_id].create_uid
           own == LinesOfUser(report'.line_ids, uid)
       IN /\ \A i \in 1 .. Len(own) : own[i].wizard_id = wizard_id
          /\ \A i, j \in 1 .. Len(own) : own[i].account_id = own[j].account_id => i = j
          /\ LinesOfOthers(report'.line_ids, uid) = LinesOfOthers(report.line_ids, uid)]_vars

\* the second wizard of the first user was generated after the wizard of the
\* other user: the lines of both are there, and none of the first wizard
C40_Witness ==
  /\ report.exists /\ last.op = "action_generate"
  /\ Len(report.line_ids) = 4
  /\ report.line_ids[1].wizard_id = 3 /\ report.line_ids[1].create_uid = "u_2"
  /\ report.line_ids[4].wizard_id = 2 /\ report.line_ids[4].create_uid = "u_1"
  /\ LinesOfWizard(report.line_ids, 1) = <<>>

====
